---- MODULE Spec2Model ----
(***************************************************************************)
(* A model of the usb-device-generator crate:                              *)
(*   - the endpoint resource allocator of src/src/endpoint.rs              *)
(*     (DeviceAllocator, calculate_count_rx),                              *)
(*   - the descriptor writer and the string table of src/src/usb.rs        *)
(*     (UsbDescriptorWriter, UsbStringAllocator),                          *)
(*   - the device and interface builders of src/src/builder.rs,            *)
(*   - the projection to TargetDeviceConfiguration (endpoint.rs) and the   *)
(*     endpoint configuration the generator writes (generator.rs).         *)
(* Option<T> values of numeric type are modelled by None (-1) or the       *)
(* number; Option<enum> values by the string "None" or the variant name.   *)
(* Vec indices are 1-based here and 0-based in the source; buffer offsets  *)
(* (configuration_offset, the marks, memory addresses) keep the source's   *)
(* 0-based values.                                                         *)
(***************************************************************************)
EXTENDS Integers, Sequences, FiniteSets, Bags, TLC

VARIABLES
    \* DeviceAllocator (endpoint.rs:63-67)
    endpoints, start_address, end_address,
    \* what the allocator calls returned so far
    granted, last, ncalls,
    \* calculate_count_rx applied to one input
    rx_size, rx_result,
    \* UsbDescriptorWriter (usb.rs:102-107)
    buf, configuration_offset, num_interfaces_mark, num_endpoints_mark,
    \* the writer calls made so far, and whether the writer is still usable
    wcalls, wstate,
    \* UsbStringAllocator (usb.rs:68-70), and the alloc calls made on it
    strings, shist,
    \* the last reservation primitive called on the allocator
    reserved,
    \* TargetDeviceConfiguration::from(allocator), and what the generator
    \* wrote from it
    target, generated,
    \* DeviceBuilder.interfaces (builder.rs:39), the InterfaceBuilders the
    \* caller holds, the builder call that panicked (if one did), and what
    \* build() returned
    interfaces, held, blast, config

allocVars == <<endpoints, start_address, end_address, granted, last, ncalls>>
rxVars == <<rx_size, rx_result>>
writerVars == <<buf, configuration_offset, num_interfaces_mark, num_endpoints_mark,
                wcalls, wstate>>
strVars == <<strings, shist>>
projVars == <<target, generated>>
builderVars == <<interfaces, held, blast, config>>
\* what the allocator, the writer and calculate_count_rx leave alone
restVars == <<strVars, reserved, projVars, builderVars>>
vars == <<endpoints, start_address, end_address, granted, last, ncalls,
          rx_size, rx_result,
          buf, configuration_offset, num_interfaces_mark, num_endpoints_mark,
          wcalls, wstate,
          strings, shist, reserved, target, generated,
          interfaces, held, blast, config>>

----------------------------------------------------------------------------
\* Program constants

None == -1
U16 == 65536
U8 == 256
USB_MAX_ENDPOINTS == 16
DEVICE_ENDPOINT_COUNT == 8
ENDPOINT_MEMORY_SIZE == 512
BUFFER_TX == 0
BUFFER_RX == 1

\* Bounds of the model
MaxCalls == 3
MaxWriterCalls == 6
MaxPads == 1
PadPayload == 65527
MaxStrCalls == 4
MaxInterfaces == 2
MaxEndpoints == 3
MaxCustoms == 1

----------------------------------------------------------------------------
\* u16 arithmetic

Min(S) == CHOOSE x \in S : \A y \in S : x <= y

\* x & !mask_bits, for mask_bits = 2^k - 1: clears the k low bits
ClearLow(x, m) == x - (x % m)

\* x << n on a u16: the bits shifted out are lost
Shl16(x, n) == (x * (2 ^ n)) % U16

\* x - y on a u16 (release build: wraps)
Sub16(x, y) == (x - y + U16) % U16

RECURSIVE BitOr(_, _)
BitOr(x, y) ==
    IF x = 0 THEN y
    ELSE IF y = 0 THEN x
    ELSE (IF x % 2 = 1 \/ y % 2 = 1 THEN 1 ELSE 0) + 2 * BitOr(x \div 2, y \div 2)

----------------------------------------------------------------------------
\* calculate_count_rx (endpoint.rs:8-26)

\* the size is not rounded up to the granularity of its class
calculate_count_rx_no_round(size) ==
    IF size <= 62 THEN
        [ok |-> TRUE, size |-> size, bits |-> Shl16(size \div 2, 10)]
    ELSE IF size <= 1024 THEN
        [ok |-> TRUE, size |-> size,
         bits |-> BitOr(32768, Shl16((size \div 32) - 1, 10))]
    ELSE [ok |-> FALSE, size |-> 0, bits |-> 0]

calculate_count_rx(size) ==
    IF size <= 62 THEN
        LET s == ClearLow(size + 1, 2)
            size_bits == s \div 2
        IN [ok |-> TRUE, size |-> s, bits |-> Shl16(size_bits, 10)]
    ELSE IF size <= 1024 THEN
        LET s == ClearLow(size + 31, 32)
            size_bits == (s \div 32) - 1
        IN [ok |-> TRUE, size |-> s, bits |-> BitOr(32768, Shl16(size_bits, 10))]
    ELSE [ok |-> FALSE, size |-> 0, bits |-> 0]

----------------------------------------------------------------------------
\* EndpointMemoryAllocation, EndpointAllocation (endpoint.rs:28-61)

NoMem == [some |-> FALSE, address |-> 0, size |-> 0]
SomeMem(address, size) == [some |-> TRUE, address |-> address, size |-> size]

has_direction(ep, direction) ==
    \/ ep.tx_enabled /\ direction = "In"
    \/ ep.rx_enabled /\ direction = "Out"

has_space(ep, ep_type, direction) ==
    IF ep.ep_type # ep_type THEN FALSE
    ELSE IF ep.double_buffered THEN FALSE
    ELSE ~has_direction(ep, direction)

----------------------------------------------------------------------------
\* DeviceAllocator (endpoint.rs:63-236).  An allocator value a is the record
\* [endpoints, start_address, end_address]; every operation returns the
\* allocator it leaves behind, also when it fails part-way (the ? operator
\* returns early and keeps what was done before it).

DeviceAllocator_new ==
    [endpoints |-> <<>>, start_address |-> 0, end_address |-> ENDPOINT_MEMORY_SIZE]

\* checked: the build has overflow checks (debug), so size + 1 panics at
\* 65535; otherwise (release) it wraps to 0.
\* the space test forgets the buffers already reserved
allocate_endpoint_buffer_ignores_end(a, size, checked) ==
    IF size + 1 >= U16 /\ checked THEN [ok |-> FALSE, err |-> "Panic", a |-> a, mem |-> NoMem]
    ELSE
        LET s == ClearLow((size + 1) % U16, 2) IN
        IF s <= Sub16(ENDPOINT_MEMORY_SIZE, a.start_address) THEN
            [ok |-> TRUE, err |-> "",
             a |-> [a EXCEPT !.end_address = a.end_address - s],
             mem |-> SomeMem(a.end_address - s, s)]
        ELSE [ok |-> FALSE, err |-> "NoMemory", a |-> a, mem |-> NoMem]

allocate_endpoint_buffer(a, size, checked) ==
    IF size + 1 >= U16 /\ checked THEN [ok |-> FALSE, err |-> "Panic", a |-> a, mem |-> NoMem]
    ELSE
        LET s == ClearLow((size + 1) % U16, 2) IN
        IF s <= Sub16(a.end_address, a.start_address) THEN
            [ok |-> TRUE, err |-> "",
             a |-> [a EXCEPT !.end_address = a.end_address - s],
             mem |-> SomeMem(a.end_address - s, s)]
        ELSE [ok |-> FALSE, err |-> "NoMemory", a |-> a, mem |-> NoMem]

\* the entry is refused when it would end where the buffers begin
allocate_buffer_descriptor_strict(a) ==
    LET size == 8 IN
    IF a.start_address % 8 # 0 THEN
        [ok |-> FALSE, err |-> "Panic", a |-> a, mem |-> NoMem]
    ELSE IF size < Sub16(a.end_address, a.start_address) THEN
        [ok |-> TRUE, err |-> "",
         a |-> [a EXCEPT !.start_address = a.start_address + size],
         mem |-> SomeMem(a.start_address, size)]
    ELSE [ok |-> FALSE, err |-> "NoMemory", a |-> a, mem |-> NoMem]

\* assert_eq!(self.start_address % 8, 0) panics on a misaligned cursor
allocate_buffer_descriptor(a) ==
    LET size == 8 IN
    IF a.start_address % 8 # 0 THEN
        [ok |-> FALSE, err |-> "Panic", a |-> a, mem |-> NoMem]
    ELSE IF size <= Sub16(a.end_address, a.start_address) THEN
        [ok |-> TRUE, err |-> "",
         a |-> [a EXCEPT !.start_address = a.start_address + size],
         mem |-> SomeMem(a.start_address, size)]
    ELSE [ok |-> FALSE, err |-> "NoMemory", a |-> a, mem |-> NoMem]

\* the packet size is reserved as it is, not as its size class
allocate_rx_buffer_raw(a, max_packet_size, checked) ==
    LET r == calculate_count_rx(max_packet_size) IN
    IF ~r.ok THEN [ok |-> FALSE, err |-> "InvalidSize", a |-> a, mem |-> NoMem]
    ELSE allocate_endpoint_buffer(a, max_packet_size, checked)

allocate_rx_buffer(a, max_packet_size, checked) ==
    LET r == calculate_count_rx(max_packet_size) IN
    IF ~r.ok THEN [ok |-> FALSE, err |-> "InvalidSize", a |-> a, mem |-> NoMem]
    ELSE allocate_endpoint_buffer(a, r.size, checked)

\* the buffer is handed out but the end cursor stays where it was
allocate_tx_buffer_no_reserve(a, max_packet_size, checked) ==
    [allocate_endpoint_buffer(a, max_packet_size, checked) EXCEPT !.a = a]

allocate_tx_buffer(a, max_packet_size, checked) ==
    allocate_endpoint_buffer(a, max_packet_size, checked)

UsedAddress(a, index) ==
    \E k \in DOMAIN a.endpoints : a.endpoints[k].address_index = index

\* the first index of the range, used or not
get_free_address_index_first(a) ==
    IF \A i \in 1..(USB_MAX_ENDPOINTS - 1) : UsedAddress(a, i) THEN None ELSE 1

\* None: "All endpoint addressees are already allocated"
get_free_address_index(a) ==
    LET free == {i \in 1..(USB_MAX_ENDPOINTS - 1) : ~UsedAddress(a, i)} IN
    IF free = {} THEN None ELSE Min(free)

EmptyEndpoint(address_index, ep_type, buffer_descriptor) ==
    [address_index |-> address_index, ep_type |-> ep_type,
     tx_enabled |-> FALSE, rx_enabled |-> FALSE, double_buffered |-> FALSE,
     buffer_descriptor |-> buffer_descriptor, buffers |-> <<NoMem, NoMem>>]

\* the limit test lets a slot in when the list is full
allocate_empty_endpoint_le(a, ep_type) ==
    IF Len(a.endpoints) <= DEVICE_ENDPOINT_COUNT THEN
        LET address_index == get_free_address_index(a) IN
        IF address_index = None THEN [ok |-> FALSE, err |-> "NoAddress", a |-> a, i |-> 0]
        ELSE
            LET bd == allocate_buffer_descriptor(a) IN
            IF ~bd.ok THEN [ok |-> FALSE, err |-> bd.err, a |-> a, i |-> 0]
            ELSE [ok |-> TRUE, err |-> "",
                  a |-> [bd.a EXCEPT !.endpoints =
                            Append(@, EmptyEndpoint(address_index, ep_type, bd.mem))],
                  i |-> Len(a.endpoints) + 1]
    ELSE [ok |-> FALSE, err |-> "NoSlot", a |-> a, i |-> 0]

\* i is the new slot's place in endpoints (1-based)
allocate_empty_endpoint(a, ep_type) ==
    IF Len(a.endpoints) < DEVICE_ENDPOINT_COUNT THEN
        LET address_index == get_free_address_index(a) IN
        IF address_index = None THEN [ok |-> FALSE, err |-> "NoAddress", a |-> a, i |-> 0]
        ELSE
            LET bd == allocate_buffer_descriptor(a) IN
            IF ~bd.ok THEN [ok |-> FALSE, err |-> bd.err, a |-> a, i |-> 0]
            ELSE [ok |-> TRUE, err |-> "",
                  a |-> [bd.a EXCEPT !.endpoints =
                            Append(@, EmptyEndpoint(address_index, ep_type, bd.mem))],
                  i |-> Len(a.endpoints) + 1]
    ELSE [ok |-> FALSE, err |-> "NoSlot", a |-> a, i |-> 0]

\* iter().enumerate().find(..): the first place whose slot satisfies P, or 0
FirstAddress(a, address_index) ==
    LET hits == {k \in DOMAIN a.endpoints : a.endpoints[k].address_index = address_index}
    IN IF hits = {} THEN 0 ELSE Min(hits)

FirstSpace(a, ep_type, direction) ==
    LET hits == {k \in DOMAIN a.endpoints : has_space(a.endpoints[k], ep_type, direction)}
    IN IF hits = {} THEN 0 ELSE Min(hits)

\* a double-buffered request may share the slot at its pinned address
select_endpoint_db_shares(a, builder, double_buffered) ==
    IF builder.number # None THEN
        LET k == FirstAddress(a, builder.number) IN
        IF k # 0 THEN
            IF \/ a.endpoints[k].double_buffered
               \/ has_direction(a.endpoints[k], builder.direction)
            THEN [ok |-> FALSE, err |-> "Exists", a |-> a, i |-> 0, created |-> FALSE]
            ELSE [ok |-> TRUE, err |-> "", a |-> a, i |-> k, created |-> FALSE]
        ELSE
            LET e == allocate_empty_endpoint(a, builder.ep_type) IN
            IF ~e.ok THEN [ok |-> FALSE, err |-> e.err, a |-> a, i |-> 0, created |-> FALSE]
            ELSE [ok |-> TRUE, err |-> "",
                  a |-> [e.a EXCEPT !.endpoints[e.i].address_index = builder.number],
                  i |-> e.i, created |-> TRUE]
    ELSE
        LET k == FirstSpace(a, builder.ep_type, builder.direction) IN
        IF k # 0 THEN [ok |-> TRUE, err |-> "", a |-> a, i |-> k, created |-> FALSE]
        ELSE
            LET e == allocate_empty_endpoint(a, builder.ep_type) IN
            IF ~e.ok THEN [ok |-> FALSE, err |-> e.err, a |-> a, i |-> 0, created |-> FALSE]
            ELSE [ok |-> TRUE, err |-> "", a |-> e.a, i |-> e.i, created |-> TRUE]

\* endpoint.rs:154-172: the slot the request goes to
select_endpoint(a, builder, double_buffered) ==
    IF builder.number # None THEN
        LET k == FirstAddress(a, builder.number) IN
        IF k # 0 THEN
            IF \/ double_buffered
               \/ a.endpoints[k].double_buffered
               \/ has_direction(a.endpoints[k], builder.direction)
            THEN [ok |-> FALSE, err |-> "Exists", a |-> a, i |-> 0, created |-> FALSE]
            ELSE [ok |-> TRUE, err |-> "", a |-> a, i |-> k, created |-> FALSE]
        ELSE
            LET e == allocate_empty_endpoint(a, builder.ep_type) IN
            IF ~e.ok THEN [ok |-> FALSE, err |-> e.err, a |-> a, i |-> 0, created |-> FALSE]
            ELSE [ok |-> TRUE, err |-> "",
                  a |-> [e.a EXCEPT !.endpoints[e.i].address_index = builder.number],
                  i |-> e.i, created |-> TRUE]
    ELSE
        LET k == FirstSpace(a, builder.ep_type, builder.direction) IN
        IF k # 0 THEN [ok |-> TRUE, err |-> "", a |-> a, i |-> k, created |-> FALSE]
        ELSE
            LET e == allocate_empty_endpoint(a, builder.ep_type) IN
            IF ~e.ok THEN [ok |-> FALSE, err |-> e.err, a |-> a, i |-> 0, created |-> FALSE]
            ELSE [ok |-> TRUE, err |-> "", a |-> e.a, i |-> e.i, created |-> TRUE]

AllocFail(err, a, created) ==
    [res |-> err, a |-> a, number |-> None, created |-> created]

\* endpoint.rs:174-206: reserve the buffers and populate slot i
populate_endpoint(a, i, created, builder, double_buffered, checked) ==
    LET direction == builder.direction
        mps == builder.max_packet_size
        Buf(x) == IF direction = "In" THEN allocate_tx_buffer(x, mps, checked)
                  ELSE allocate_rx_buffer(x, mps, checked)
        number == IF builder.number = None THEN a.endpoints[i].address_index
                  ELSE builder.number
    IN
    IF double_buffered THEN
        LET b0 == Buf(a) IN
        IF ~b0.ok THEN AllocFail(b0.err, b0.a, created)
        ELSE
            LET b1 == Buf(b0.a) IN
            IF ~b1.ok THEN AllocFail(b1.err, b1.a, created)
            ELSE
                [res |-> "Ok",
                 a |-> [b1.a EXCEPT !.endpoints[i] =
                           [@ EXCEPT !.tx_enabled = (direction = "In"),
                                     !.rx_enabled = (direction = "Out"),
                                     !.double_buffered = TRUE,
                                     !.buffers = <<b0.mem, b1.mem>>]],
                 number |-> number, created |-> created]
    ELSE
        LET b == Buf(a) IN
        IF ~b.ok THEN AllocFail(b.err, b.a, created)
        ELSE
            [res |-> "Ok",
             a |-> [b.a EXCEPT !.endpoints[i] =
                       IF direction = "In"
                       THEN [@ EXCEPT !.tx_enabled = TRUE,
                                      !.buffers[BUFFER_TX + 1] = b.mem]
                       ELSE [@ EXCEPT !.rx_enabled = TRUE,
                                      !.buffers[BUFFER_RX + 1] = b.mem]],
             number |-> number, created |-> created]

\* the packet size is looked at only after the slot was chosen
allocate_from_builder_late_check(a, builder, double_buffered, checked) ==
    IF \/ builder.ep_type = "None"
       \/ builder.direction = "None"
    THEN AllocFail("ConfigError", a, FALSE)
    ELSE
        LET s == select_endpoint(a, builder, double_buffered) IN
        IF ~s.ok THEN AllocFail(s.err, s.a, FALSE)
        ELSE IF builder.max_packet_size = None
        THEN AllocFail("ConfigError", s.a, s.created)
        ELSE populate_endpoint(s.a, s.i, s.created, builder, double_buffered, checked)

\* endpoint.rs:149-213
allocate_from_builder(a, builder, double_buffered, checked) ==
    IF \/ builder.ep_type = "None"
       \/ builder.direction = "None"
       \/ builder.max_packet_size = None
    THEN AllocFail("ConfigError", a, FALSE)
    ELSE
        LET s == select_endpoint(a, builder, double_buffered) IN
        IF ~s.ok THEN AllocFail(s.err, s.a, FALSE)
        ELSE populate_endpoint(s.a, s.i, s.created, builder, double_buffered, checked)

\* the receive buffer is sized as the transmit buffer is
allocate_ep0_from_builfer_rx_as_tx(a, max_packet_size_0) ==
    IF UsedAddress(a, 0) THEN AllocFail("Exists", a, FALSE)
    ELSE
        LET bd == allocate_buffer_descriptor(a) IN
        IF ~bd.ok THEN AllocFail(bd.err, bd.a, FALSE)
        ELSE
            LET tx == allocate_tx_buffer(bd.a, max_packet_size_0, TRUE) IN
            IF ~tx.ok THEN AllocFail(tx.err, tx.a, FALSE)
            ELSE
                LET rx == allocate_tx_buffer(tx.a, max_packet_size_0, TRUE) IN
                IF ~rx.ok THEN AllocFail(rx.err, rx.a, FALSE)
                ELSE
                    [res |-> "Ok",
                     a |-> [rx.a EXCEPT !.endpoints = Append(@,
                              [address_index |-> 0, ep_type |-> "Control",
                               tx_enabled |-> TRUE, rx_enabled |-> TRUE,
                               double_buffered |-> FALSE,
                               buffer_descriptor |-> bd.mem,
                               buffers |-> <<tx.mem, rx.mem>>])],
                     number |-> 0, created |-> TRUE]

\* endpoint.rs:215-235
allocate_ep0_from_builfer(a, max_packet_size_0) ==
    IF UsedAddress(a, 0) THEN AllocFail("Exists", a, FALSE)
    ELSE
        LET bd == allocate_buffer_descriptor(a) IN
        IF ~bd.ok THEN AllocFail(bd.err, bd.a, FALSE)
        ELSE
            LET tx == allocate_tx_buffer(bd.a, max_packet_size_0, TRUE) IN
            IF ~tx.ok THEN AllocFail(tx.err, tx.a, FALSE)
            ELSE
                LET rx == allocate_rx_buffer(tx.a, max_packet_size_0, TRUE) IN
                IF ~rx.ok THEN AllocFail(rx.err, rx.a, FALSE)
                ELSE
                    [res |-> "Ok",
                     a |-> [rx.a EXCEPT !.endpoints = Append(@,
                              [address_index |-> 0, ep_type |-> "Control",
                               tx_enabled |-> TRUE, rx_enabled |-> TRUE,
                               double_buffered |-> FALSE,
                               buffer_descriptor |-> bd.mem,
                               buffers |-> <<tx.mem, rx.mem>>])],
                     number |-> 0, created |-> TRUE]

----------------------------------------------------------------------------
\* The projection to TargetDeviceConfiguration (endpoint.rs:280-361) and
\* write_endpoint_configuration (generator.rs:72-95)

\* offsets and sizes are copied in bytes, not converted to words
create_buffer_descriptor_in_bytes(mem, is_rx) ==
    IF mem.some THEN
        LET r == calculate_count_rx(mem.size) IN
        IF is_rx /\ (~r.ok \/ r.size # mem.size) THEN
            [ok |-> FALSE, offset_words |-> 0, size_words |-> 0, address |-> 0,
             count |-> 0]
        ELSE
            [ok |-> TRUE, offset_words |-> mem.address,
             size_words |-> mem.size, address |-> mem.address,
             count |-> IF is_rx THEN r.bits ELSE 0]
    ELSE [ok |-> TRUE, offset_words |-> 0, size_words |-> 0, address |-> 0, count |-> 0]

\* ok = FALSE: calculate_count_rx(mem.size).unwrap() or
\* assert_eq!(size, mem.size) panicked
create_buffer_descriptor(mem, is_rx) ==
    IF mem.some THEN
        LET r == calculate_count_rx(mem.size) IN
        IF is_rx /\ (~r.ok \/ r.size # mem.size) THEN
            [ok |-> FALSE, offset_words |-> 0, size_words |-> 0, address |-> 0,
             count |-> 0]
        ELSE
            [ok |-> TRUE, offset_words |-> mem.address \div 2,
             size_words |-> mem.size \div 2, address |-> mem.address,
             count |-> IF is_rx THEN r.bits ELSE 0]
    ELSE [ok |-> TRUE, offset_words |-> 0, size_words |-> 0, address |-> 0, count |-> 0]

\* From<EndpointAllocation> for TargetEndpointConfiguration; panic names the
\* assertion that failed
TargetEndpointConfiguration_from(ep) ==
    LET b0 == create_buffer_descriptor(ep.buffers[1], ep.double_buffered /\ ep.rx_enabled)
        b1 == create_buffer_descriptor(ep.buffers[2], ep.rx_enabled)
    IN
    IF ~(ep.address_index < 16) THEN [ok |-> FALSE, panic |-> "address_index"]
    ELSE IF ~b0.ok \/ ~b1.ok THEN [ok |-> FALSE, panic |-> "count_rx"]
    ELSE
        [ok |-> TRUE, panic |-> "",
         ep_address |-> ep.address_index,
         ep_type |-> ep.ep_type,
         tx_enabled |-> ep.tx_enabled,
         rx_enabled |-> ep.rx_enabled,
         double_buffered |-> ep.double_buffered,
         buffer_descriptor_offset_bytes |-> ep.buffer_descriptor.address,
         buffer_descriptor_data |-> <<b0.address, b0.count, b1.address, b1.count>>,
         buffer0_offset_words |-> b0.offset_words,
         buffer1_offset_words |-> b1.offset_words,
         buffer0_size_words |-> b0.size_words,
         buffer1_size_words |-> b1.size_words]

\* the records are collected in reverse order of the slots
TargetDeviceConfiguration_from_reversed(a) ==
    LET n == Len(a.endpoints)
        eps == [k \in DOMAIN a.endpoints |->
                   TargetEndpointConfiguration_from(a.endpoints[n + 1 - k])]
        bad == {k \in DOMAIN eps : ~eps[k].ok}
    IN
    IF bad = {} THEN [done |-> TRUE, ok |-> TRUE, panic |-> "", endpoints |-> eps]
    ELSE [done |-> TRUE, ok |-> FALSE, panic |-> eps[Min(bad)].panic, endpoints |-> <<>>]

\* From<DeviceAllocator> for TargetDeviceConfiguration: the slots are
\* projected in order, and the first panic ends the conversion
TargetDeviceConfiguration_from(a) ==
    LET eps == [k \in DOMAIN a.endpoints |-> TargetEndpointConfiguration_from(a.endpoints[k])]
        bad == {k \in DOMAIN eps : ~eps[k].ok}
    IN
    IF bad = {} THEN [done |-> TRUE, ok |-> TRUE, panic |-> "", endpoints |-> eps]
    ELSE [done |-> TRUE, ok |-> FALSE, panic |-> eps[Min(bad)].panic, endpoints |-> <<>>]

\* a double-buffered slot is written like any other
RECURSIVE write_endpoint_configuration_any(_, _, _)
write_endpoint_configuration_any(eps, i, lines) ==
    IF i >= Len(eps) THEN [done |-> TRUE, ok |-> TRUE, panic |-> "", lines |-> lines]
    ELSE
        LET ep == eps[i + 1] IN
        IF i # ep.ep_address THEN
            [done |-> TRUE, ok |-> FALSE, panic |-> "ep_address", lines |-> lines]
        ELSE
            write_endpoint_configuration_any(eps, i + 1,
                lines \o <<[i |-> i, call |-> "set_ep_type", args |-> <<ep.ep_type>>]>>
                \o (IF ep.buffer0_size_words # 0
                    THEN <<[i |-> i, call |-> "set_in_buf",
                            args |-> <<Shl16(ep.buffer0_offset_words, 1),
                                       Shl16(ep.buffer0_size_words, 1)>>]>>
                    ELSE <<>>)
                \o (IF ep.buffer1_size_words # 0
                    THEN <<[i |-> i, call |-> "set_out_buf",
                            args |-> <<Shl16(ep.buffer1_offset_words, 1),
                                       Shl16(ep.buffer1_size_words, 1),
                                       ep.buffer_descriptor_data[4]>>]>>
                    ELSE <<>>))

\* for (i, ep) in endpoints.iter().enumerate(), from slot i on; lines are the
\* calls written to the generated configure_endpoints so far.  A failed
\* assert_eq!(i, ep.ep_address) or a double-buffered slot panics.
RECURSIVE write_endpoint_configuration(_, _, _)
write_endpoint_configuration(eps, i, lines) ==
    IF i >= Len(eps) THEN [done |-> TRUE, ok |-> TRUE, panic |-> "", lines |-> lines]
    ELSE
        LET ep == eps[i + 1]
            typed == lines \o <<[i |-> i, call |-> "set_ep_type", args |-> <<ep.ep_type>>]>>
        IN
        IF i # ep.ep_address THEN
            [done |-> TRUE, ok |-> FALSE, panic |-> "ep_address", lines |-> lines]
        ELSE IF ep.double_buffered THEN
            [done |-> TRUE, ok |-> FALSE, panic |-> "double_buffered", lines |-> typed]
        ELSE
            write_endpoint_configuration(eps, i + 1,
                typed
                \o (IF ep.buffer0_size_words # 0
                    THEN <<[i |-> i, call |-> "set_in_buf",
                            args |-> <<Shl16(ep.buffer0_offset_words, 1),
                                       Shl16(ep.buffer0_size_words, 1)>>]>>
                    ELSE <<>>)
                \o (IF ep.buffer1_size_words # 0
                    THEN <<[i |-> i, call |-> "set_out_buf",
                            args |-> <<Shl16(ep.buffer1_offset_words, 1),
                                       Shl16(ep.buffer1_size_words, 1),
                                       ep.buffer_descriptor_data[4]>>]>>
                    ELSE <<>>))

----------------------------------------------------------------------------
\* UsbDescriptorWriter (usb.rs:102-237).  A writer value w is the record
\* [buf, configuration_offset, num_interfaces_mark, num_endpoints_mark];
\* buf[k + 1] here is self.buf[k] in the source.

UsbDescriptorType_Device == 1
UsbDescriptorType_Configuration == 2
UsbDescriptorType_String == 3
UsbDescriptorType_Interface == 4
UsbDescriptorType_Endpoint == 5

UsbDescriptorWriter_new ==
    [buf |-> <<>>, configuration_offset |-> None,
     num_interfaces_mark |-> None, num_endpoints_mark |-> None]

\* length.to_le_bytes() of a u16
to_le_bytes(x) == <<x % 256, x \div 256>>

\* buf[offset..offset + Len(bytes)].copy_from_slice(bytes)
copy_from_slice(b, offset, bytes) ==
    [k \in 1..Len(b) |->
        IF k > offset /\ k <= offset + Len(bytes) THEN bytes[k - offset] ELSE b[k]]

write(w, descriptor_type, descriptor) ==
    LET length == Len(descriptor) IN
    [w EXCEPT !.buf = @ \o <<(length + 2) % 256, descriptor_type>> \o descriptor]

position(w) == Len(w.buf)

\* the length is counted from the length field, not from the header
update_configuration_length_off_by_two(w) ==
    IF w.configuration_offset # None THEN
        LET offset == w.configuration_offset
            length == Sub16(position(w) % U16, (offset + 2) % U16)
        IN [w EXCEPT !.buf = copy_from_slice(@, offset + 2, to_le_bytes(length))]
    ELSE w

update_configuration_length(w) ==
    IF w.configuration_offset # None THEN
        LET offset == w.configuration_offset
            length == Sub16(position(w) % U16, offset % U16)
        IN [w EXCEPT !.buf = copy_from_slice(@, offset + 2, to_le_bytes(length))]
    ELSE w

\* the interface-count mark stays on the first configuration
configuration_keeps_mark(w, conf, index) ==
    LET w1 == update_configuration_length(w)
        w2 == [w1 EXCEPT !.configuration_offset = position(w1),
                         !.num_interfaces_mark =
                             IF @ = None THEN position(w1) + 4 ELSE @]
    IN write(w2, UsbDescriptorType_Configuration,
             <<0, 0, 0, conf.configuration_value, index, conf.attributes,
               conf.max_power>>)

\* index: alloc.get_index(&conf.configuration_string).unwrap()
configuration(w, conf, index) ==
    LET w1 == update_configuration_length(w)
        w2 == [w1 EXCEPT !.configuration_offset = position(w1),
                         !.num_interfaces_mark = position(w1) + 4]
    IN write(w2, UsbDescriptorType_Configuration,
             <<0, 0, 0, conf.configuration_value, index, conf.attributes,
               conf.max_power>>)

\* buf[mark] += 1 on a u8
increment(b, mark) == [b EXCEPT ![mark + 1] = (@ + 1) % 256]

\* index: alloc.get_index(&interface.interface_string).unwrap();
\* the caller has checked that num_interfaces_mark is set
interface(w, desc, index) ==
    LET w1 == [w EXCEPT !.buf = increment(@, w.num_interfaces_mark)]
        w2 == [w1 EXCEPT !.num_endpoints_mark = position(w1) + 4]
    IN write(w2, UsbDescriptorType_Interface,
             <<desc.interface_number, desc.alternate_setting, 0,
               desc.interface_class, desc.interface_sub_class,
               desc.interface_protocol, index>>)

\* the caller has checked that num_endpoints_mark is set
endpoint(w, desc) ==
    LET w1 == [w EXCEPT !.buf = increment(@, w.num_endpoints_mark)]
        mps == desc.max_packet_size
    IN write(w1, UsbDescriptorType_Endpoint,
             <<desc.address, desc.attributes, mps % 256, (mps \div 256) % 256,
               desc.interval>>)

custom_descriptor(w, descriptor) ==
    write(w, descriptor.descriptor_type, descriptor.data)

\* the indexes: alloc.get_index(..).unwrap() of manufacturer, product and
\* serial_number
device(w, dev, num_configurations, iManufacturer, iProduct, iSerialNumber) ==
    write(w, UsbDescriptorType_Device,
          <<0, 2, dev.device_class, dev.device_sub_class, dev.device_protocol,
            dev.max_packet_size_0,
            dev.vendor_id % U8, (dev.vendor_id \div U8) % U8,
            dev.product_id % U8, (dev.product_id \div U8) % U8,
            dev.device_release % U8, (dev.device_release \div U8) % U8,
            iManufacturer, iProduct, iSerialNumber, num_configurations>>)

\* str::encode_utf16: one unit for a scalar value below 0x10000, a surrogate
\* pair above
encode_utf16_char(c) ==
    IF c < U16 THEN <<c>>
    ELSE <<55296 + ((c - U16) \div 1024), 56320 + ((c - U16) % 1024)>>

RECURSIVE encode_utf16(_)
encode_utf16(text) ==
    IF text = <<>> THEN <<>>
    ELSE encode_utf16_char(Head(text)) \o encode_utf16(Tail(text))

RECURSIVE units_to_le_bytes(_)
units_to_le_bytes(units) ==
    IF units = <<>> THEN <<>>
    ELSE to_le_bytes(Head(units)) \o units_to_le_bytes(Tail(units))

string(w, text) ==
    write(w, UsbDescriptorType_String, units_to_le_bytes(encode_utf16(text)))

\* the total length is left at its placeholder
finish_no_backpatch(w) == w

finish(w) == update_configuration_length(w)

----------------------------------------------------------------------------
\* The writer as a state machine

Writer == [buf |-> buf, configuration_offset |-> configuration_offset,
           num_interfaces_mark |-> num_interfaces_mark,
           num_endpoints_mark |-> num_endpoints_mark]

\* What the callers pass in
Confs == {[configuration_value |-> 1, attributes |-> 128, max_power |-> 50]}
Interfaces ==
    {[interface_number |-> 7, alternate_setting |-> 0, interface_class |-> 255,
      interface_sub_class |-> 0, interface_protocol |-> 0]}
Endpoints == {[address |-> 129, attributes |-> 2, max_packet_size |-> 512, interval |-> 9]}
Customs == {[descriptor_type |-> 36, data |-> <<>>],
            [descriptor_type |-> 36, data |-> <<0, 16, 1>>]}
StringIndexes == {0}

WriterInit ==
    /\ buf = UsbDescriptorWriter_new.buf
    /\ configuration_offset = UsbDescriptorWriter_new.configuration_offset
    /\ num_interfaces_mark = UsbDescriptorWriter_new.num_interfaces_mark
    /\ num_endpoints_mark = UsbDescriptorWriter_new.num_endpoints_mark
    /\ wcalls = <<>>
    /\ wstate = "open"

\* The call op returned, leaving the writer w behind
Wrote(op, w) ==
    /\ buf' = w.buf
    /\ configuration_offset' = w.configuration_offset
    /\ num_interfaces_mark' = w.num_interfaces_mark
    /\ num_endpoints_mark' = w.num_endpoints_mark
    /\ wcalls' = Append(wcalls, [op |-> op, position |-> Len(buf)])

\* Option::unwrap() on None, or an arithmetic overflow in a build with
\* overflow checks: the call panics
Panicked ==
    /\ wstate' = "panicked"
    /\ UNCHANGED <<buf, configuration_offset, num_interfaces_mark, num_endpoints_mark,
                   wcalls>>

\* position() as u16 - offset as u16 leaves the u16 range
length_overflows(w) ==
    /\ w.configuration_offset # None
    /\ position(w) % U16 < w.configuration_offset % U16

\* buf[mark] += 1 leaves the u8 range
count_overflows(w, mark) == w.buf[mark + 1] = 255

\* The builds that differ when an overflow happens: with overflow checks
\* (TRUE) the operation panics, without them it wraps
OverflowChecks(overflows) == IF overflows THEN BOOLEAN ELSE {FALSE}

\* no other call follows a pad but finish()
CanCall ==
    /\ wstate = "open"
    /\ Len(wcalls) < MaxWriterCalls
    /\ \A k \in DOMAIN wcalls : wcalls[k].op # "pad"

WriterConfiguration ==
    /\ CanCall
    /\ \E checked \in OverflowChecks(length_overflows(Writer)) :
         IF checked THEN Panicked
         ELSE /\ \E conf \in Confs, index \in StringIndexes :
                   Wrote("configuration", configuration(Writer, conf, index))
              /\ wstate' = wstate
    /\ UNCHANGED <<allocVars, rxVars, restVars>>

WriterInterface ==
    /\ CanCall
    /\ IF num_interfaces_mark = None THEN Panicked
       ELSE \E checked \in OverflowChecks(count_overflows(Writer, num_interfaces_mark)) :
              IF checked THEN Panicked
              ELSE /\ \E i \in Interfaces, index \in StringIndexes :
                        Wrote("interface", interface(Writer, i, index))
                   /\ wstate' = wstate
    /\ UNCHANGED <<allocVars, rxVars, restVars>>

WriterEndpoint ==
    /\ CanCall
    /\ IF num_endpoints_mark = None THEN Panicked
       ELSE \E checked \in OverflowChecks(count_overflows(Writer, num_endpoints_mark)) :
              IF checked THEN Panicked
              ELSE /\ \E e \in Endpoints : Wrote("endpoint", endpoint(Writer, e))
                   /\ wstate' = wstate
    /\ UNCHANGED <<allocVars, rxVars, restVars>>

WriterCustomDescriptor ==
    /\ CanCall
    /\ \E d \in Customs : Wrote("custom_descriptor", custom_descriptor(Writer, d))
    /\ wstate' = wstate
    /\ UNCHANGED <<allocVars, rxVars, restVars>>

\* finish(mut self) consumes the writer
WriterFinish ==
    /\ wstate = "open"
    /\ \E checked \in OverflowChecks(length_overflows(Writer)) :
         IF checked THEN Panicked
         ELSE /\ Wrote("finish", finish(Writer))
              /\ wstate' = "finished"
    /\ UNCHANGED <<allocVars, rxVars, restVars>>

\* A long configuration: the first call was configuration(), and every call
\* since was a custom descriptor with a payload of PadPayload zero bytes
\* (descriptor.data is a Vec<u8> of any length)
Pad == [descriptor_type |-> 36, data |-> [k \in 1..PadPayload |-> 0]]

OnlyPadded ==
    /\ wcalls # <<>>
    /\ wcalls[1].op = "configuration"
    /\ \A k \in 2..Len(wcalls) : wcalls[k].op = "pad"

WriterPad ==
    /\ wstate = "open"
    /\ OnlyPadded
    /\ Len(wcalls) <= MaxPads
    /\ Wrote("pad", custom_descriptor(Writer, Pad))
    /\ wstate' = wstate
    /\ UNCHANGED <<allocVars, rxVars, restVars>>

----------------------------------------------------------------------------
\* The allocator as a state machine

Alloc == [endpoints |-> endpoints, start_address |-> start_address,
          end_address |-> end_address]

\* What the callers pass in (EndpointBuilder, builder.rs:331-373;
\* max_packet_size_0, builder.rs:97-105)
Dirs == {"In", "Out"}
Types == {"Bulk", "Interrupt"}
\* the default, the largest the setter takes, and an odd size written to the
\* public descriptor field
Ep0Sizes == {8, 64, 99}

\* Requests with a small packet size, auto-assigned or pinned to number 1
CoreBuilders ==
    [number : {None, 1}, direction : Dirs, ep_type : Types, max_packet_size : {7}]

\* Requests at the edges: buffers that exhaust the 512 bytes, a packet size
\* whose rounding leaves the u16 range, number 0 and a number above 15
EdgeBuilders ==
    { [number |-> None, direction |-> "In", ep_type |-> "Bulk", max_packet_size |-> 200],
      [number |-> None, direction |-> "Out", ep_type |-> "Bulk", max_packet_size |-> 200],
      [number |-> None, direction |-> "In", ep_type |-> "Bulk", max_packet_size |-> 65535],
      [number |-> None, direction |-> "Out", ep_type |-> "Bulk", max_packet_size |-> 65535],
      [number |-> 0, direction |-> "In", ep_type |-> "Bulk", max_packet_size |-> 7],
      [number |-> 0, direction |-> "Out", ep_type |-> "Interrupt", max_packet_size |-> 7],
      [number |-> 16, direction |-> "In", ep_type |-> "Bulk", max_packet_size |-> 7] }

Builders == CoreBuilders \cup EdgeBuilders

\* EndpointBuilder::new() with one of the three required fields left unset
UnsetBuilders ==
    { [number |-> None, direction |-> "In", ep_type |-> "None", max_packet_size |-> 7],
      [number |-> None, direction |-> "None", ep_type |-> "Bulk", max_packet_size |-> 7],
      [number |-> None, direction |-> "In", ep_type |-> "Bulk", max_packet_size |-> None] }

\* The builds that differ on this request: overflow checks matter only when
\* max_packet_size + 1 leaves the u16 range.
Builds(builder) ==
    IF builder.max_packet_size + 1 >= U16 THEN BOOLEAN ELSE {TRUE}

Granted(address, direction, ep_type) ==
    SetToBag({[address |-> address, direction |-> direction, ep_type |-> ep_type]})

AllocInit ==
    /\ endpoints = DeviceAllocator_new.endpoints
    /\ start_address = DeviceAllocator_new.start_address
    /\ end_address = DeviceAllocator_new.end_address
    /\ granted = EmptyBag
    /\ last = [op |-> "new", res |-> "Ok", number |-> None, created |-> FALSE]
    /\ ncalls = 0

RxIdle ==
    /\ rx_size = None
    /\ rx_result = [done |-> FALSE, ok |-> FALSE, size |-> 0, bits |-> 0]

\* allocator.allocate_from_builder(builder, double_buffered) and what the
\* caller gets back.  On an error the public wrappers panic (unwrap); the
\* allocator, borrowed from the caller, stays as the failed call left it.
Allocated(op, builder, double_buffered, checked) ==
    LET r == allocate_from_builder(Alloc, builder, double_buffered, checked) IN
    /\ endpoints' = r.a.endpoints
    /\ start_address' = r.a.start_address
    /\ end_address' = r.a.end_address
    /\ granted' = IF r.res = "Ok"
                  THEN granted (+) Granted(r.number, builder.direction, builder.ep_type)
                  ELSE granted
    /\ last' = [op |-> op, res |-> r.res, number |-> r.number, created |-> r.created]

\* EndpointBuilderEx::allocate (endpoint.rs:255-260)
allocate(builder, checked) ==
    Allocated("allocate", builder, FALSE, checked)

\* EndpointBuilderEx::allocate_double_buffered (endpoint.rs:262-267)
allocate_double_buffered(builder, checked) ==
    Allocated("allocate_double_buffered", builder, TRUE, checked)

\* DeviceBuilderEx::allocate (endpoint.rs:274-278)
allocate_control(max_packet_size_0) ==
    LET r == allocate_ep0_from_builfer(Alloc, max_packet_size_0) IN
    /\ endpoints' = r.a.endpoints
    /\ start_address' = r.a.start_address
    /\ end_address' = r.a.end_address
    /\ granted' = IF r.res = "Ok"
                  THEN granted (+) Granted(0, "Out", "Control") (+) Granted(0, "In", "Control")
                  ELSE granted
    /\ last' = [op |-> "allocate_control", res |-> r.res, number |-> r.number,
                created |-> r.created]

----------------------------------------------------------------------------
\* UsbString, UsbStringAllocator (usb.rs:61-100).  A text is the sequence of
\* its Unicode scalar values; the derived PartialEq is equality of records.
\* table[k + 1] here is self.strings[k] in the source.

UsbString_None == [kind |-> "None", text |-> <<>>, id |-> 0]
UsbString_Const(text) == [kind |-> "Const", text |-> text, id |-> 0]
UsbString_Custom(id) == [kind |-> "Custom", text |-> <<>>, id |-> id]

UsbStringAllocator_new == <<UsbString_None>>

\* the place is counted from 1, not from 0
get_index_from_one(table, value) ==
    LET hits == {k \in DOMAIN table : table[k] = value} IN
    IF hits = {} THEN None ELSE Min(hits) % U8

\* iter().enumerate().find(..).map(|(i, _)| i as u8)
get_index(table, value) ==
    LET hits == {k \in DOMAIN table : table[k] = value} IN
    IF hits = {} THEN None ELSE (Min(hits) - 1) % U8

\* every value is appended, interned before or not
alloc_always_push(table, value) ==
    [index |-> Len(table) % U8, strings |-> Append(table, value)]

\* strings.len() as u8 keeps the low 8 bits of the length
alloc(table, value) ==
    LET index == get_index(table, value) IN
    IF index # None THEN [index |-> index, strings |-> table]
    ELSE [index |-> Len(table) % U8, strings |-> Append(table, value)]

into_inner(table) == table

----------------------------------------------------------------------------
\* The string table as a state machine

\* What the callers intern: no string, the empty text, "A", "B", and two
\* external ids
StringValues ==
    { UsbString_None, UsbString_Const(<<>>), UsbString_Const(<<65>>),
      UsbString_Const(<<66>>), UsbString_Custom(42), UsbString_Custom(7) }

\* The table after U8 - 1 alloc calls with distinct external ids: the next
\* new value is entry number U8
FullTable ==
    UsbStringAllocator_new \o [k \in 1..(U8 - 1) |-> UsbString_Custom(1000 + k)]

StrInit ==
    /\ strings = UsbStringAllocator_new
    /\ shist = <<>>

\* table.alloc(&value); shist keeps what each call was given, the table it
\* found, the index it returned and the table it left behind
StrAlloc ==
    /\ Len(shist) < MaxStrCalls
    /\ \E value \in StringValues :
         LET r == alloc(strings, value) IN
         /\ strings' = r.strings
         /\ shist' = Append(shist, [string |-> value, index |-> r.index,
                                    before |-> strings, strings |-> r.strings])
    /\ UNCHANGED <<allocVars, rxVars, writerVars, reserved, projVars, builderVars>>

----------------------------------------------------------------------------
\* Nothing reserved, projected or built yet

ReserveIdle == reserved = [op |-> "none", size |-> 0, res |-> "",
                           start_address |-> 0, end_address |-> 0]

NotProjected == [done |-> FALSE, ok |-> FALSE, panic |-> "", endpoints |-> <<>>]
NotGenerated == [done |-> FALSE, ok |-> FALSE, panic |-> "", lines |-> <<>>]

ProjIdle ==
    /\ target = NotProjected
    /\ generated = NotGenerated

----------------------------------------------------------------------------
\* DeviceBuilder, InterfaceBuilder, EndpointBuilder::build (builder.rs:36-387)

\* usb_device::endpoint::EndpointType as u8, usb_device::descriptor::lang_id
EndpointType_Control == 0
EndpointType_Bulk == 2
EndpointType_Interrupt == 3
ENGLISH_US == 1033

\* EndpointAddress::from_parts(index, direction).into(): the direction is
\* bit 7
EndpointAddress_from_parts(index, direction) ==
    BitOr(index % U8, IF direction = "In" THEN 128 ELSE 0)

EndpointType_as_u8(ep_type) ==
    CASE ep_type = "Control" -> EndpointType_Control
      [] ep_type = "Bulk" -> EndpointType_Bulk
      [] ep_type = "Interrupt" -> EndpointType_Interrupt

\* EndpointBuilder::build, on a builder with every field set
EndpointBuilder_build(builder) ==
    [address |-> EndpointAddress_from_parts(builder.number, builder.direction),
     attributes |-> EndpointType_as_u8(builder.ep_type),
     max_packet_size |-> builder.max_packet_size,
     interval |-> builder.interval]

DeviceBuilder_new(vendor_id, product_id) ==
    [descriptor |->
        [device_class |-> 0, device_sub_class |-> 0, device_protocol |-> 0,
         max_packet_size_0 |-> 8, vendor_id |-> vendor_id, product_id |-> product_id,
         device_release |-> 16, manufacturer |-> UsbString_None,
         product |-> UsbString_None, serial_number |-> UsbString_None],
     configuration_desc |->
        [configuration_value |-> 1, configuration_string |-> UsbString_None,
         attributes |-> 128, max_power |-> 50]]

InterfaceBuilder_new(interface_number) ==
    [descriptor |->
        [interface_number |-> interface_number, alternate_setting |-> 0,
         interface_class |-> 0, interface_sub_class |-> 0,
         interface_protocol |-> 0, interface_string |-> UsbString_None],
     custom_descriptors |-> <<>>,
     endpoints |-> <<>>]

InterfaceBuilder_alternate_setting(ib, alternate_setting) ==
    [ib EXCEPT !.descriptor.alternate_setting = alternate_setting]

InterfaceBuilder_descriptor(ib, descriptor_type, descriptor) ==
    [ib EXCEPT !.custom_descriptors =
        Append(@, [descriptor_type |-> descriptor_type, data |-> descriptor])]

InterfaceBuilder_endpoint(ib, desc) ==
    [ib EXCEPT !.endpoints = Append(@, desc)]

\* ifs is DeviceBuilder.interfaces; ifs[k + 1] here is self.interfaces[k]
alloc_interface(ifs) ==
    LET index == Len(ifs)
        builder == InterfaceBuilder_new(index % U8)
    IN [interfaces |-> Append(ifs, builder), builder |-> builder]

\* ok = FALSE: one of the three assertions failed
add_interface(ifs, ib) ==
    LET index == ib.descriptor.interface_number IN
    IF \/ ~(index < Len(ifs))
       \/ ib.descriptor.alternate_setting # 0
       \/ ib.endpoints = <<>>
    THEN [ok |-> FALSE, interfaces |-> ifs]
    ELSE [ok |-> TRUE, interfaces |-> [ifs EXCEPT ![index + 1] = ib]]

\* table.alloc(v) for each v of values, in order.  The calls are grouped in
\* halves, and the table (never empty: it holds None) is looked at before
\* the next group, which keeps the evaluation shallow for long lists.
RECURSIVE alloc_all(_, _)
alloc_all(table, values) ==
    IF table = <<>> \/ values = <<>> THEN table
    ELSE IF Len(values) = 1 THEN alloc(table, values[1]).strings
    ELSE LET h == Len(values) \div 2 IN
         alloc_all(alloc_all(table, SubSeq(values, 1, h)),
                   SubSeq(values, h + 1, Len(values)))

\* builder.rs:199-207
build_strings(dev, conf, ifs) ==
    alloc_all(UsbStringAllocator_new,
              <<dev.manufacturer, dev.product, dev.serial_number,
                conf.configuration_string>>
              \o [k \in DOMAIN ifs |-> ifs[k].descriptor.interface_string]
              \o <<UsbString_Custom(42)>>)

RECURSIVE write_customs(_, _)
write_customs(w, customs) ==
    IF customs = <<>> THEN w
    ELSE write_customs(custom_descriptor(w, Head(customs)), Tail(customs))

RECURSIVE write_endpoints(_, _)
write_endpoints(w, descs) ==
    IF descs = <<>> THEN w
    ELSE write_endpoints(endpoint(w, Head(descs)), Tail(descs))

\* builder.rs:217-225: the interfaces are written in order, onto a buffer
\* that holds the configuration descriptor; grouped in halves as alloc_all is
RECURSIVE write_interfaces(_, _, _)
write_interfaces(w, ifs, table) ==
    IF w.buf = <<>> \/ ifs = <<>> THEN w
    ELSE IF Len(ifs) = 1 THEN
        LET ib == ifs[1]
            w1 == interface(w, ib.descriptor,
                            get_index(table, ib.descriptor.interface_string))
            w2 == write_customs(w1, ib.custom_descriptors)
        IN write_endpoints(w2, ib.endpoints)
    ELSE
        LET h == Len(ifs) \div 2 IN
        write_interfaces(write_interfaces(w, SubSeq(ifs, 1, h), table),
                         SubSeq(ifs, h + 1, Len(ifs)), table)

\* (i, s) in strings.into_iter().enumerate(), with the key i as u8
StringKey(place) == (place - 1) % U8

Max(S) == CHOOSE x \in S : \A y \in S : y <= x

\* builder.rs:229-250: HashMap::insert replaces the value of a key that is
\* already present, so the last entry with a key is the one that stays
build_string_descriptors(table) ==
    LET places == {k \in DOMAIN table : table[k].kind # "Custom"}
        keys == {StringKey(k) : k \in places}
    IN [i \in keys |->
          LET k == Max({x \in places : StringKey(x) = i}) IN
          IF table[k].kind = "None"
          THEN finish(write(UsbDescriptorWriter_new, UsbDescriptorType_String,
                            to_le_bytes(ENGLISH_US))).buf
          ELSE finish(string(UsbDescriptorWriter_new, table[k].text)).buf]

build_custom_strings(table) ==
    LET places == {k \in DOMAIN table : table[k].kind = "Custom"}
        keys == {StringKey(k) : k \in places}
    IN [i \in keys |-> table[Max({x \in places : StringKey(x) = i})].id]

RECURSIVE interface_endpoints(_)
interface_endpoints(ifs) ==
    IF ifs = <<>> THEN <<>>
    ELSE IF Len(ifs) = 1 THEN ifs[1].endpoints
    ELSE LET h == Len(ifs) \div 2 IN
         interface_endpoints(SubSeq(ifs, 1, h))
            \o interface_endpoints(SubSeq(ifs, h + 1, Len(ifs)))

\* builder.rs:253-270
build_endpoints(dev, ifs) ==
    << [address |-> EndpointAddress_from_parts(0, "Out"),
        attributes |-> EndpointType_Control,
        max_packet_size |-> dev.max_packet_size_0, interval |-> 0],
       [address |-> EndpointAddress_from_parts(0, "In"),
        attributes |-> EndpointType_Control,
        max_packet_size |-> dev.max_packet_size_0, interval |-> 0] >>
    \o interface_endpoints(ifs)

NoConfig == [done |-> FALSE, ok |-> FALSE]
BuildPanicked == [done |-> TRUE, ok |-> FALSE]

\* a count byte passes 255 while the descriptors are written
build_overflows(ifs) ==
    \/ Len(ifs) >= U8
    \/ \E k \in DOMAIN ifs : Len(ifs[k].endpoints) >= U8

\* DeviceBuilder::build (builder.rs:195-279) on the device descriptor dev, the
\* configuration descriptor conf and the interfaces ifs.  checked: the build
\* has overflow checks.
build(dev, conf, ifs, checked) ==
    IF ifs = <<>> THEN BuildPanicked
    ELSE
        LET table == build_strings(dev, conf, ifs)
            lookups == {get_index(table, dev.manufacturer),
                        get_index(table, dev.product),
                        get_index(table, dev.serial_number),
                        get_index(table, conf.configuration_string)}
                       \cup {get_index(table, ifs[k].descriptor.interface_string) :
                               k \in DOMAIN ifs}
        IN
        IF None \in lookups \/ (checked /\ build_overflows(ifs)) THEN BuildPanicked
        ELSE
            LET wd == device(UsbDescriptorWriter_new, dev, 1,
                             get_index(table, dev.manufacturer),
                             get_index(table, dev.product),
                             get_index(table, dev.serial_number))
                wc == configuration(UsbDescriptorWriter_new, conf,
                                    get_index(table, conf.configuration_string))
            IN [done |-> TRUE, ok |-> TRUE,
                device_descriptor |-> finish(wd).buf,
                configuration_descriptor |-> finish(write_interfaces(wc, ifs, table)).buf,
                string_descriptors |-> build_string_descriptors(into_inner(table)),
                custom_strings |-> build_custom_strings(into_inner(table)),
                endpoints |-> build_endpoints(dev, ifs)]

----------------------------------------------------------------------------
\* The builders as a state machine.  held is the set of InterfaceBuilders
\* that alloc_interface returned and the caller has not saved yet.

\* What the callers pass in: DeviceBuilder::new with no setter called, and
\* one with max_packet_size_0, manufacturer, product and configuration set
\* (manufacturer and configuration to the same text)
Devices ==
    { DeviceBuilder_new(4617, 1),
      [DeviceBuilder_new(4617, 1) EXCEPT
          !.descriptor.max_packet_size_0 = 64,
          !.descriptor.manufacturer = UsbString_Const(<<65>>),
          !.descriptor.product = UsbString_Const(<<66>>),
          !.configuration_desc.configuration_string = UsbString_Const(<<65>>)] }

InterruptIn8 ==
    EndpointBuilder_build([number |-> 1, direction |-> "In", ep_type |-> "Interrupt",
                           max_packet_size |-> 8, interval |-> 10])
BulkOut64 ==
    EndpointBuilder_build([number |-> 2, direction |-> "Out", ep_type |-> "Bulk",
                           max_packet_size |-> 64, interval |-> 0])
BulkIn64 ==
    EndpointBuilder_build([number |-> 2, direction |-> "In", ep_type |-> "Bulk",
                           max_packet_size |-> 64, interval |-> 0])

BuiltEndpoints == {InterruptIn8, BulkOut64, BulkIn64}

BuilderInit ==
    /\ interfaces = <<>>
    /\ held = {}
    /\ blast = [op |-> "none", res |-> "Ok"]
    /\ config = NoConfig

\* no call has panicked and build(self) has not consumed the device builder
BuilderOpen ==
    /\ blast.res = "Ok"
    /\ ~config.done

\* The InterfaceBuilders made so far: those the caller holds and those saved
\* in the device (an interface that is held has an empty place in the device)
RECURSIVE BuildersOf(_)
BuildersOf(ibs) ==
    IF ibs = {} THEN <<>>
    ELSE LET ib == CHOOSE x \in ibs : TRUE IN <<ib>> \o BuildersOf(ibs \ {ib})

AllBuilders == interfaces \o BuildersOf(held)

\* The endpoint() and descriptor() calls made so far, on all InterfaceBuilders
RECURSIVE CustomsOf(_)
CustomsOf(ifs) ==
    IF ifs = <<>> THEN <<>>
    ELSE Head(ifs).custom_descriptors \o CustomsOf(Tail(ifs))

EndpointCalls == Len(interface_endpoints(AllBuilders))
DescriptorCalls == Len(CustomsOf(AllBuilders))

BuilderAllocInterface ==
    /\ BuilderOpen
    /\ Len(interfaces) < MaxInterfaces
    /\ LET r == alloc_interface(interfaces) IN
         /\ interfaces' = r.interfaces
         /\ held' = held \cup {r.builder}
    /\ UNCHANGED <<blast, config, allocVars, rxVars, writerVars, strVars, reserved,
                   projVars>>

BuilderEndpoint ==
    /\ BuilderOpen
    /\ EndpointCalls < MaxEndpoints
    /\ \E ib \in held, desc \in BuiltEndpoints :
         held' = (held \ {ib}) \cup {InterfaceBuilder_endpoint(ib, desc)}
    /\ UNCHANGED <<interfaces, blast, config, allocVars, rxVars, writerVars, strVars,
                   reserved, projVars>>

BuilderDescriptor ==
    /\ BuilderOpen
    /\ DescriptorCalls < MaxCustoms
    /\ \E ib \in held :
         held' = (held \ {ib}) \cup {InterfaceBuilder_descriptor(ib, 36, <<0, 16, 1>>)}
    /\ UNCHANGED <<interfaces, blast, config, allocVars, rxVars, writerVars, strVars,
                   reserved, projVars>>

BuilderAlternateSetting ==
    /\ BuilderOpen
    /\ \E ib \in held :
         held' = (held \ {ib}) \cup {InterfaceBuilder_alternate_setting(ib, 1)}
    /\ UNCHANGED <<interfaces, blast, config, allocVars, rxVars, writerVars, strVars,
                   reserved, projVars>>

\* InterfaceBuilder::save(self, device): a failed assertion panics
BuilderSave ==
    /\ BuilderOpen
    /\ \E ib \in held :
         LET r == add_interface(interfaces, ib) IN
         /\ interfaces' = r.interfaces
         /\ held' = held \ {ib}
         /\ blast' = IF r.ok THEN blast ELSE [op |-> "save", res |-> "Panic"]
    /\ UNCHANGED <<config, allocVars, rxVars, writerVars, strVars, reserved, projVars>>

BuilderBuild ==
    /\ BuilderOpen
    /\ \E builder \in Devices :
         \E checked \in OverflowChecks(build_overflows(interfaces)) :
            config' = build(builder.descriptor, builder.configuration_desc, interfaces,
                            checked)
    /\ blast' = IF config'.ok THEN blast ELSE [op |-> "build", res |-> "Panic"]
    /\ UNCHANGED <<interfaces, held, allocVars, rxVars, writerVars, strVars, reserved,
                   projVars>>

----------------------------------------------------------------------------
\* Spec: any MaxCalls calls, with every kind of request

CallAllocate ==
    /\ ncalls < MaxCalls
    /\ \E builder \in Builders \cup UnsetBuilders :
         \E checked \in Builds(builder) : allocate(builder, checked)
    /\ ncalls' = ncalls + 1
    /\ UNCHANGED <<rxVars, writerVars, restVars>>

CallAllocateDoubleBuffered ==
    /\ ncalls < MaxCalls
    /\ \E builder \in Builders \cup UnsetBuilders :
         \E checked \in Builds(builder) : allocate_double_buffered(builder, checked)
    /\ ncalls' = ncalls + 1
    /\ UNCHANGED <<rxVars, writerVars, restVars>>

CallAllocateControl ==
    /\ ncalls < MaxCalls
    /\ \E max_packet_size_0 \in Ep0Sizes : allocate_control(max_packet_size_0)
    /\ ncalls' = ncalls + 1
    /\ UNCHANGED <<rxVars, writerVars, restVars>>

Init == AllocInit /\ RxIdle /\ WriterInit /\ StrInit /\ ReserveIdle /\ ProjIdle /\ BuilderInit

Next == CallAllocate \/ CallAllocateDoubleBuffered \/ CallAllocateControl

Spec == Init /\ [][Next]_vars

----------------------------------------------------------------------------
\* SpecSlots: as many calls as the allocator takes, each the control endpoint
\* or an auto-assigned single-buffered IN request (which needs a slot of its
\* own: no slot that serves IN has space for it)

SlotBuilders ==
    [number : {None}, direction : {"In"}, ep_type : Types, max_packet_size : {7}]

SlotsAllocate ==
    /\ \E builder \in SlotBuilders : allocate(builder, TRUE)
    /\ UNCHANGED <<ncalls, rxVars, writerVars, restVars>>

SlotsAllocateControl ==
    /\ allocate_control(8)
    /\ UNCHANGED <<ncalls, rxVars, writerVars, restVars>>

NextSlots == SlotsAllocate \/ SlotsAllocateControl

SpecSlots == Init /\ [][NextSlots]_vars

----------------------------------------------------------------------------
\* SpecProject: the calls of Spec, then the allocator is converted to a
\* TargetDeviceConfiguration (which consumes it) and the generator writes
\* the endpoint configuration from that

ProjectAllocate == ~target.done /\ CallAllocate

ProjectAllocateDoubleBuffered == ~target.done /\ CallAllocateDoubleBuffered

ProjectAllocateControl == ~target.done /\ CallAllocateControl

\* TargetDeviceConfiguration::from(allocator)
Project ==
    /\ ~target.done
    /\ target' = TargetDeviceConfiguration_from(Alloc)
    /\ UNCHANGED <<generated, allocVars, rxVars, writerVars, strVars, reserved,
                   builderVars>>

\* generate_file(.., device_config) formats the TargetDeviceConfig
Generate ==
    /\ target.done
    /\ target.ok
    /\ ~generated.done
    /\ generated' = write_endpoint_configuration(target.endpoints, 0, <<>>)
    /\ UNCHANGED <<target, allocVars, rxVars, writerVars, strVars, reserved,
                   builderVars>>

NextProject ==
    \/ ProjectAllocate
    \/ ProjectAllocateDoubleBuffered
    \/ ProjectAllocateControl
    \/ Project
    \/ Generate

SpecProject == Init /\ [][NextProject]_vars

----------------------------------------------------------------------------
\* SpecReserve: the two reservation primitives of the allocator, called in
\* any order on its cursors.  reserved keeps the last call: the primitive,
\* its argument, the cursors it found and its result.

\* Packet sizes: odd and even, of both receive classes, one that takes all
\* the memory that is left after one descriptor entry, and the largest u16
BufferSizes == {1, 8, 63, 200, 504, 65535}

ReserveDescriptor ==
    /\ LET r == allocate_buffer_descriptor(Alloc) IN
         /\ start_address' = r.a.start_address
         /\ end_address' = r.a.end_address
         /\ reserved' = [op |-> "allocate_buffer_descriptor", size |-> 8,
                         res |-> IF r.ok THEN "Ok" ELSE r.err,
                         start_address |-> start_address, end_address |-> end_address]
    /\ UNCHANGED <<endpoints, granted, last, ncalls, rxVars, writerVars, strVars,
                   projVars, builderVars>>

ReserveBuffer ==
    /\ \E size \in BufferSizes : \E checked \in Builds([max_packet_size |-> size]) :
         LET r == allocate_endpoint_buffer(Alloc, size, checked) IN
         /\ start_address' = r.a.start_address
         /\ end_address' = r.a.end_address
         /\ reserved' = [op |-> "allocate_endpoint_buffer", size |-> size,
                         res |-> IF r.ok THEN "Ok" ELSE r.err,
                         start_address |-> start_address, end_address |-> end_address]
    /\ UNCHANGED <<endpoints, granted, last, ncalls, rxVars, writerVars, strVars,
                   projVars, builderVars>>

NextReserve == ReserveDescriptor \/ ReserveBuffer

SpecReserve == Init /\ [][NextReserve]_vars

----------------------------------------------------------------------------
\* SpecWriter: any MaxWriterCalls writer calls, then finish

NextWriter ==
    \/ WriterConfiguration
    \/ WriterInterface
    \/ WriterEndpoint
    \/ WriterCustomDescriptor
    \/ WriterFinish

SpecWriter == Init /\ [][NextWriter]_vars

----------------------------------------------------------------------------
\* SpecWriterLong: the same, and a configuration padded to 65536 bytes and
\* more

NextWriterLong ==
    \/ WriterConfiguration
    \/ WriterInterface
    \/ WriterEndpoint
    \/ WriterCustomDescriptor
    \/ WriterFinish
    \/ WriterPad

SpecWriterLong == Init /\ [][NextWriterLong]_vars

----------------------------------------------------------------------------
\* SpecRx: calculate_count_rx applied to every u16

InitRx ==
    /\ AllocInit
    /\ WriterInit
    /\ StrInit
    /\ ReserveIdle
    /\ ProjIdle
    /\ BuilderInit
    /\ rx_size \in 0..(U16 - 1)
    /\ rx_result = [done |-> FALSE, ok |-> FALSE, size |-> 0, bits |-> 0]

CountRx ==
    /\ ~rx_result.done
    /\ LET r == calculate_count_rx(rx_size) IN
         rx_result' = [done |-> TRUE, ok |-> r.ok, size |-> r.size, bits |-> r.bits]
    /\ UNCHANGED <<rx_size, allocVars, writerVars, restVars>>

NextRx == CountRx

SpecRx == InitRx /\ [][NextRx]_vars

----------------------------------------------------------------------------
\* SpecStrings: any MaxStrCalls alloc calls, on a new table and on one that
\* already holds U8 entries

InitStrings ==
    /\ AllocInit
    /\ RxIdle
    /\ WriterInit
    /\ ReserveIdle
    /\ ProjIdle
    /\ BuilderInit
    /\ strings \in {UsbStringAllocator_new, FullTable}
    /\ shist = <<>>

NextStrings == StrAlloc

SpecStrings == InitStrings /\ [][NextStrings]_vars

----------------------------------------------------------------------------
\* SpecBuilder: up to MaxInterfaces alloc_interface calls, MaxEndpoints
\* endpoint calls and MaxCustoms descriptor calls on the InterfaceBuilders,
\* which are saved or not, then build

NextBuilder ==
    \/ BuilderAllocInterface
    \/ BuilderEndpoint
    \/ BuilderDescriptor
    \/ BuilderAlternateSetting
    \/ BuilderSave
    \/ BuilderBuild

SpecBuilder == Init /\ [][NextBuilder]_vars

----------------------------------------------------------------------------
\* SpecInterfaces: alloc_interface, endpoint and save calls on a new device
\* and on a device on which alloc_interface was called U8 - 1 times before
\* (the builders it returned were dropped)

CrowdedDevice == [k \in 1..(U8 - 1) |-> InterfaceBuilder_new(k - 1)]

InitInterfaces ==
    /\ AllocInit
    /\ RxIdle
    /\ WriterInit
    /\ StrInit
    /\ ReserveIdle
    /\ ProjIdle
    /\ interfaces \in {<<>>, CrowdedDevice}
    /\ held = {}
    /\ blast = [op |-> "none", res |-> "Ok"]
    /\ config = NoConfig

\* the alloc_interface calls made since the initial state
AllocInterfaceCalls == Len(interfaces) % Len(CrowdedDevice)

InterfacesAlloc ==
    /\ BuilderOpen
    /\ AllocInterfaceCalls < MaxInterfaces
    /\ LET r == alloc_interface(interfaces) IN
         /\ interfaces' = r.interfaces
         /\ held' = held \cup {r.builder}
    /\ UNCHANGED <<blast, config, allocVars, rxVars, writerVars, strVars, reserved,
                   projVars>>

\* up to MaxEndpoints endpoint calls on each InterfaceBuilder
InterfacesEndpoint ==
    /\ BuilderOpen
    /\ \E ib \in held :
         /\ Len(ib.endpoints) < MaxEndpoints
         /\ held' = (held \ {ib}) \cup {InterfaceBuilder_endpoint(ib, InterruptIn8)}
    /\ UNCHANGED <<interfaces, blast, config, allocVars, rxVars, writerVars, strVars,
                   reserved, projVars>>

NextInterfaces ==
    \/ InterfacesAlloc
    \/ InterfacesEndpoint
    \/ BuilderSave

SpecInterfaces == InitInterfaces /\ [][NextInterfaces]_vars

----------------------------------------------------------------------------
\* SpecNamed: build on devices whose interfaces were saved with one endpoint
\* and an interface string (descriptor.interface_string is a public field):
\* one or two interfaces with any of the StringValues, and U8 - 1 interfaces
\* with a text of its own each

NamedInterface(k, value) ==
    [InterfaceBuilder_new(k - 1) EXCEPT !.descriptor.interface_string = value,
                                       !.endpoints = <<InterruptIn8>>]

FewNamed ==
    {<<NamedInterface(1, v)>> : v \in StringValues}
        \cup {<<NamedInterface(1, v[1]), NamedInterface(2, v[2])>> :
                 v \in StringValues \X StringValues}

ManyNamed == [k \in 1..(U8 - 1) |-> NamedInterface(k, UsbString_Const(<<U8 + k>>))]

InitNamed ==
    /\ AllocInit
    /\ RxIdle
    /\ WriterInit
    /\ StrInit
    /\ ReserveIdle
    /\ ProjIdle
    /\ interfaces \in FewNamed \cup {ManyNamed}
    /\ held = {}
    /\ blast = [op |-> "none", res |-> "Ok"]
    /\ config = NoConfig

NextNamed == BuilderBuild

SpecNamed == InitNamed /\ [][NextNamed]_vars

----------------------------------------------------------------------------
\* Claims about the allocator

NonControlSlots == {k \in DOMAIN endpoints : endpoints[k].address_index # 0}

\* C1: in every state reached by allocate, allocate_double_buffered and
\* control-endpoint allocate calls, successful or failing, start_address <=
\* end_address, and the bytes taken by descriptor-table entries
\* (start_address) plus the bytes taken by data buffers (512 - end_address)
\* never exceed 512.
C1_CursorsNeverCross ==
    /\ start_address <= end_address
    /\ start_address + (ENDPOINT_MEMORY_SIZE - end_address) <= ENDPOINT_MEMORY_SIZE

\* a call has failed for lack of memory, with both cursors moved
C1_Witness ==
    /\ last.res = "NoMemory"
    /\ start_address > 0
    /\ end_address < ENDPOINT_MEMORY_SIZE
    /\ end_address - start_address < 200

\* C2: no two slots have the same address index, and no two successful
\* allocations (the control endpoint included, which takes address 0 in both
\* directions) were given the same (address index, direction) pair.
C2_AddressesUnique ==
    /\ \A i, j \in DOMAIN endpoints :
         i # j => endpoints[i].address_index # endpoints[j].address_index
    /\ \A g \in BagToSet(granted) : CopiesIn(g, granted) = 1
    /\ \A g, h \in BagToSet(granted) :
         (g.address = h.address /\ g.direction = h.direction) => g = h

\* the control endpoint, and another slot that serves IN and OUT
C2_Witness ==
    /\ UsedAddress(Alloc, 0)
    /\ \E k \in DOMAIN endpoints :
         /\ endpoints[k].address_index # 0
         /\ endpoints[k].tx_enabled
         /\ endpoints[k].rx_enabled
    /\ Cardinality(BagToSet(granted)) = 4

\* C3, as claimed: the control endpoint does not count against the limit of
\* 8 slots: a call that needs a new slot fails for the limit only when 8
\* slots other than the control endpoint exist, and never more than 8 exist.
C3_ControlNotCounted ==
    /\ last.res = "NoSlot" => Cardinality(NonControlSlots) = DEVICE_ENDPOINT_COUNT
    /\ Cardinality(NonControlSlots) <= DEVICE_ENDPOINT_COUNT

\* C3, amended: a call that needs a new slot fails with "Can't allocate
\* endpoint" exactly when the list already holds 8 slots or more, the control
\* endpoint included if it was allocated before; otherwise (memory sufficing)
\* it succeeds and leaves at most 8 slots.
C3_SlotLimit ==
    last.op = "allocate" =>
        /\ last.res \in {"Ok", "NoSlot"}
        /\ last.res = "NoSlot" => Len(endpoints) >= DEVICE_ENDPOINT_COUNT
        /\ last.res = "Ok" => last.created /\ Len(endpoints) <= DEVICE_ENDPOINT_COUNT

\* the control endpoint and 7 other slots exist, and the call for an 8th
\* other slot has failed for the limit
C3_Witness ==
    /\ last.op = "allocate"
    /\ last.res = "NoSlot"
    /\ UsedAddress(Alloc, 0)
    /\ Cardinality(NonControlSlots) = DEVICE_ENDPOINT_COUNT - 1

\* C4: the list never holds more than 8 slots.
C4_AtMostEightSlots == Len(endpoints) <= DEVICE_ENDPOINT_COUNT

\* C5: a slot whose address index is 0 is the control endpoint: its type is
\* Control, both directions are enabled and it is not double-buffered.
C5_AddressZeroIsControl ==
    \A k \in DOMAIN endpoints :
        endpoints[k].address_index = 0 =>
            /\ endpoints[k].ep_type = "Control"
            /\ endpoints[k].tx_enabled
            /\ endpoints[k].rx_enabled
            /\ ~endpoints[k].double_buffered

\* C6: a slot that serves both IN and OUT is not double-buffered, and the
\* requests that were granted its address named the same endpoint type.
C6_SharedSlotSameType ==
    \A k \in DOMAIN endpoints :
        (endpoints[k].tx_enabled /\ endpoints[k].rx_enabled) =>
            /\ ~endpoints[k].double_buffered
            /\ \A g, h \in BagToSet(granted) :
                 (g.address = endpoints[k].address_index
                    /\ h.address = endpoints[k].address_index)
                 => g.ep_type = h.ep_type

\* The buffers that serve a direction of a slot: both of a double-buffered
\* slot, else buffer 0 for IN and buffer 1 for OUT
ServingBuffers(ep, direction) ==
    IF ep.double_buffered THEN ep.buffers
    ELSE IF direction = "In" THEN <<ep.buffers[BUFFER_TX + 1]>>
    ELSE <<ep.buffers[BUFFER_RX + 1]>>

\* C15: allocation is monotonic: a slot that serves a direction keeps, over
\* every later call, its place, address index and type, still serves that
\* direction, and the buffers serving it keep their address and size.
C15_Monotonic ==
    [][\A k \in DOMAIN endpoints : \A direction \in Dirs :
          has_direction(endpoints[k], direction) =>
              /\ k \in DOMAIN endpoints'
              /\ endpoints'[k].address_index = endpoints[k].address_index
              /\ endpoints'[k].ep_type = endpoints[k].ep_type
              /\ has_direction(endpoints'[k], direction)
              /\ ServingBuffers(endpoints'[k], direction)
                    = ServingBuffers(endpoints[k], direction)]_vars

\* The requests with a pinned number
PinnedBuilders == {b \in Builders : b.number # None}

\* This step is the call of allocate (double_buffered = FALSE) or
\* allocate_double_buffered (TRUE) with the request b
IsCall(b, double_buffered) ==
    \E checked \in Builds(b) :
        Allocated(IF double_buffered THEN "allocate_double_buffered" ELSE "allocate",
                  b, double_buffered, checked)

\* The slot at place k is not double-buffered and does not serve the
\* direction
Compatible(k, direction) ==
    /\ ~endpoints[k].double_buffered
    /\ ~has_direction(endpoints[k], direction)

\* What a pinned request does when no slot has its address: a new slot,
\* forced to the pinned address, is added whenever fewer than 8 slots exist
\* and a descriptor entry fits; it stays also when the buffers fail
CreatesPinned(b) ==
    /\ last'.res # "Exists"
    /\ IF Len(endpoints) < DEVICE_ENDPOINT_COUNT /\ start_address + 8 <= end_address
       THEN /\ Len(endpoints') = Len(endpoints) + 1
            /\ endpoints'[Len(endpoints')].address_index = b.number
            /\ last'.res = "Ok" =>
                  /\ has_direction(endpoints'[Len(endpoints')], b.direction)
                  /\ last'.number = b.number
       ELSE /\ last'.res \in {"NoSlot", "NoMemory"}
            /\ endpoints' = endpoints

\* C20, as claimed: a pinned request whose address has a slot reuses it if
\* and only if the slot is not double-buffered and does not serve the
\* direction, single- and double-buffered requests alike, and fails otherwise;
\* with no slot at the address a new slot is created at the pinned address.
C20_PinnedSameRule ==
    [][\A b \in PinnedBuilders : \A double_buffered \in BOOLEAN :
          IsCall(b, double_buffered) =>
              LET k == FirstAddress(Alloc, b.number) IN
              IF k # 0
              THEN /\ (last'.res = "Exists") = ~Compatible(k, b.direction)
                   /\ Len(endpoints') = Len(endpoints)
                   /\ last'.res = "Ok" => has_direction(endpoints'[k], b.direction)
              ELSE CreatesPinned(b)]_vars

\* C20, amended: a single-buffered pinned request reuses the slot at its
\* address if and only if the slot is not double-buffered and does not serve
\* the direction; a double-buffered pinned request never reuses a slot: it
\* fails whenever a slot has its address.  With no slot at the address a new
\* slot is created at the pinned address (slot limit and memory permitting).
C20_PinnedRule ==
    [][\A b \in PinnedBuilders : \A double_buffered \in BOOLEAN :
          IsCall(b, double_buffered) =>
              LET k == FirstAddress(Alloc, b.number) IN
              IF k # 0
              THEN /\ (last'.res = "Exists") =
                         (double_buffered \/ ~Compatible(k, b.direction))
                   /\ Len(endpoints') = Len(endpoints)
                   /\ last'.res = "Exists" => endpoints' = endpoints
                   /\ last'.res = "Ok" =>
                         /\ has_direction(endpoints'[k], b.direction)
                         /\ last'.number = b.number
              ELSE CreatesPinned(b)]_vars

\* two requests pinned to number 0 were granted: the first created the slot
\* at address 0, the second reused it for the other direction
C20_Witness ==
    /\ last.res = "Ok"
    /\ ~last.created
    /\ last.number = 0
    /\ \E k \in DOMAIN endpoints :
         /\ endpoints[k].address_index = 0
         /\ endpoints[k].ep_type # "Control"
         /\ endpoints[k].tx_enabled
         /\ endpoints[k].rx_enabled

\* size rounded up to the next even number, in u16
roundup_even(size) == 2 * (((size + 1) % U16) \div 2)

\* C18, as claimed: a reservation fails when it would make the cursors meet
\* or cross, so after a successful one start < end and both cursors are in
\* 0..511.
C18_FailsOnMeet ==
    /\ (reserved.op = "allocate_buffer_descriptor"
          /\ reserved.start_address + 8 >= reserved.end_address)
       => reserved.res # "Ok"
    /\ (reserved.op = "allocate_endpoint_buffer"
          /\ reserved.end_address - roundup_even(reserved.size) <= reserved.start_address)
       => reserved.res # "Ok"
    /\ reserved.res = "Ok" =>
         /\ start_address < end_address
         /\ start_address \in 0..(ENDPOINT_MEMORY_SIZE - 1)
         /\ end_address \in 0..(ENDPOINT_MEMORY_SIZE - 1)

\* C18, amended: a reservation fails exactly when it would make the cursors
\* cross: the descriptor entry when start + 8 > end, the buffer when its
\* rounded size exceeds end - start; a reservation that makes them meet
\* succeeds.  After every reservation start <= end and both are in 0..512;
\* a successful one moves its cursor by the reserved size, a failed one moves
\* nothing.
C18_FailsOnCross ==
    /\ reserved.op = "allocate_buffer_descriptor" =>
         /\ (reserved.res = "Ok") = (reserved.start_address + 8 <= reserved.end_address)
         /\ start_address =
               reserved.start_address + (IF reserved.res = "Ok" THEN 8 ELSE 0)
         /\ end_address = reserved.end_address
    /\ (reserved.op = "allocate_endpoint_buffer" /\ reserved.res # "Panic") =>
         /\ (reserved.res = "Ok") =
               (roundup_even(reserved.size)
                  <= reserved.end_address - reserved.start_address)
         /\ end_address = reserved.end_address
               - (IF reserved.res = "Ok" THEN roundup_even(reserved.size) ELSE 0)
         /\ start_address = reserved.start_address
    /\ reserved.res = "Panic" =>
         /\ reserved.size = U16 - 1
         /\ start_address = reserved.start_address
         /\ end_address = reserved.end_address
    /\ start_address <= end_address
    /\ start_address \in 0..ENDPOINT_MEMORY_SIZE
    /\ end_address \in 0..ENDPOINT_MEMORY_SIZE

\* a descriptor entry was reserved that ends where the buffers begin
C18_Witness ==
    /\ reserved.op = "allocate_buffer_descriptor"
    /\ reserved.res = "Ok"
    /\ start_address = end_address
    /\ end_address < ENDPOINT_MEMORY_SIZE

----------------------------------------------------------------------------
\* Claims about calculate_count_rx

\* The size classes as the specification states them
rx_size_class(size) ==
    IF size <= 62 THEN
        LET s == 2 * ((size + 1) \div 2) IN
        [ok |-> TRUE, size |-> s, bits |-> (s \div 2) * 1024]
    ELSE IF size <= 1024 THEN
        LET s == 32 * ((size + 31) \div 32) IN
        [ok |-> TRUE, size |-> s, bits |-> 32768 + ((s \div 32) - 1) * 1024]
    ELSE [ok |-> FALSE, size |-> 0, bits |-> 0]

\* C7: calculate_count_rx equals the size-class function on every u16:
\* sizes up to 62 round up to a multiple of 2 with control word (s/2) << 10,
\* sizes 63..1024 round up to a multiple of 32 with control word
\* 0x8000 | ((s/32 - 1) << 10), larger sizes fail; 1 -> (2, 0x0400),
\* 64 -> (64, 0x8400), 1025 fails, and every control word fits 16 bits.
C7_CountRxIsSizeClass ==
    rx_result.done =>
        /\ rx_result.ok = rx_size_class(rx_size).ok
        /\ rx_result.size = rx_size_class(rx_size).size
        /\ rx_result.bits = rx_size_class(rx_size).bits
        /\ rx_result.bits < U16
        /\ rx_result.ok = (rx_size <= 1024)
        /\ rx_size = 1 => rx_result.size = 2 /\ rx_result.bits = 1024
        /\ rx_size = 64 => rx_result.size = 64 /\ rx_result.bits = 33792
        /\ rx_size = 1025 => ~rx_result.ok

\* the largest size of the 32-byte class: 1024 -> (1024, 0xFC00)
C7_Witness ==
    /\ rx_result.done
    /\ rx_size = 1024
    /\ rx_result.ok
    /\ rx_result.size = 1024
    /\ rx_result.bits = 64512

----------------------------------------------------------------------------
\* Claims about the projection

\* Buffer n (0 or 1) of the slot is the one the projection treats as a
\* receive buffer
TreatedAsRx(ep, n) ==
    IF n = 0 THEN ep.double_buffered /\ ep.rx_enabled ELSE ep.rx_enabled

AnyDoubleBuffered == \E k \in DOMAIN endpoints : endpoints[k].double_buffered

\* C16: for every slot of every reachable allocator state the projection's
\* receive-buffer assertions hold: for a buffer treated as a receive buffer
\* calculate_count_rx(size) succeeds and returns the reserved size, and the
\* emitted control word is the size class's control word; every other buffer
\* carries control word 0.
C16_RxAssertionsHold ==
    /\ \A k \in DOMAIN endpoints : \A n \in {0, 1} :
         LET ep == endpoints[k]
             mem == ep.buffers[n + 1]
             d == create_buffer_descriptor(mem, TreatedAsRx(ep, n))
         IN
         /\ d.ok
         /\ IF mem.some /\ TreatedAsRx(ep, n)
            THEN /\ calculate_count_rx(mem.size).ok
                 /\ calculate_count_rx(mem.size).size = mem.size
                 /\ d.count = rx_size_class(mem.size).bits
            ELSE d.count = 0
    /\ target.done => target.panic # "count_rx"
    /\ target.ok =>
         \A k \in DOMAIN endpoints : \A n \in {0, 1} :
            target.endpoints[k].buffer_descriptor_data[2 * n + 2] =
               IF endpoints[k].buffers[n + 1].some /\ TreatedAsRx(endpoints[k], n)
               THEN rx_size_class(endpoints[k].buffers[n + 1].size).bits
               ELSE 0

\* a state with a 224-byte receive buffer (control word 0x9800) and a
\* transmit buffer was projected
C16_Witness ==
    /\ target.ok
    /\ \E k \in DOMAIN endpoints :
         /\ endpoints[k].rx_enabled
         /\ endpoints[k].buffers[BUFFER_RX + 1].size = 224
         /\ target.endpoints[k].buffer_descriptor_data[4] = 38912
    /\ \E k \in DOMAIN endpoints :
         /\ endpoints[k].tx_enabled
         /\ endpoints[k].buffers[BUFFER_TX + 1].some
         /\ target.endpoints[k].buffer_descriptor_data[2] = 0

C19_AddressFitsFourBits ==
    /\ \A k \in DOMAIN endpoints : endpoints[k].address_index \in 0..15
    /\ target.done => target.panic # "address_index"
    /\ (last.op # "new" /\ last.res = "Ok") => last.number \in 0..15

----------------------------------------------------------------------------
\* Claims about the descriptor writer

CallsOf(op) == {i \in DOMAIN wcalls : wcalls[i].op = op}

NoneBetween(i, j, ops) == \A k \in (i + 1)..(j - 1) : wcalls[k].op \notin ops

\* self.buf[offset]
ByteAt(offset) == buf[offset + 1]

\* The first byte after configuration i: the next configuration header, or
\* the end of the buffer
ConfigurationEnd(i) ==
    LET later == {j \in CallsOf("configuration") : j > i} IN
    IF later = {} THEN Len(buf) ELSE wcalls[Min(later)].position

\* wTotalLength of the configuration written by call i
TotalLength(i) ==
    ByteAt(wcalls[i].position + 2) + 256 * ByteAt(wcalls[i].position + 3)

\* The interface() calls made after configuration i and before the next one
InterfacesOf(i) ==
    {j \in CallsOf("interface") : j > i /\ NoneBetween(i, j, {"configuration"})}

\* The endpoint() calls made after interface i and before the next
\* interface() or configuration() call
EndpointsOf(i) ==
    {j \in CallsOf("endpoint") :
        j > i /\ NoneBetween(i, j, {"interface", "configuration"})}

\* C8, as claimed: after finish() the total-length field of every
\* configuration descriptor is the number of bytes from its header to the next
\* configuration header, or to the end of the buffer.
C8_TotalLengthExact ==
    wstate = "finished" =>
        \A i \in CallsOf("configuration") :
            TotalLength(i) = ConfigurationEnd(i) - wcalls[i].position

\* C8, amended: the field is that number of bytes modulo 65536, so it is the
\* exact number for every configuration shorter than 65536 bytes.
C8_TotalLengthMod ==
    wstate = "finished" =>
        \A i \in CallsOf("configuration") :
            LET bytes == ConfigurationEnd(i) - wcalls[i].position IN
            /\ TotalLength(i) = bytes % U16
            /\ bytes < U16 => TotalLength(i) = bytes

\* two configurations were written, the first with an interface and an
\* endpoint, and the writer has finished
C8_Witness ==
    /\ wstate = "finished"
    /\ Cardinality(CallsOf("configuration")) = 2
    /\ \E i \in CallsOf("configuration"), j \in CallsOf("endpoint") :
         /\ i < j
         /\ TotalLength(i) = 25
    /\ \E i \in CallsOf("configuration") : TotalLength(i) = 9

\* C9: the interface-count byte of every configuration descriptor is the
\* number of interface() calls made after that configuration() call and
\* before the next one (for fewer than 256 interfaces).
C9_InterfaceCount ==
    \A i \in CallsOf("configuration") :
        Cardinality(InterfacesOf(i)) < 256 =>
            ByteAt(wcalls[i].position + 4) = Cardinality(InterfacesOf(i))

\* a configuration with two interfaces, then one with one interface
C9_Witness ==
    \E i, j \in CallsOf("configuration") :
        /\ i < j
        /\ Cardinality(InterfacesOf(i)) = 2
        /\ Cardinality(InterfacesOf(j)) = 1

\* C10: the endpoint-count byte of every interface descriptor is the number
\* of endpoint() calls made after that interface() call and before the next
\* interface() or configuration() call.
C10_EndpointCount ==
    \A i \in CallsOf("interface") :
        ByteAt(wcalls[i].position + 4) = Cardinality(EndpointsOf(i))

----------------------------------------------------------------------------
\* Claims about the string table

\* C11: interning is idempotent: when alloc(s) is followed by alloc(s), both
\* calls return the same index and the second leaves the table as it found
\* it; alloc(None), in any state, returns 0 and leaves the table as it found
\* it.
C11_InternIdempotent ==
    /\ \A k \in DOMAIN shist :
         (k > 1 /\ shist[k - 1].string = shist[k].string) =>
             /\ shist[k].index = shist[k - 1].index
             /\ shist[k].strings = shist[k].before
    /\ \A k \in DOMAIN shist :
         shist[k].string = UsbString_None =>
             /\ shist[k].index = 0
             /\ shist[k].strings = shist[k].before

\* a new text was interned twice in a row, after other values, and so was
\* None
C11_Witness ==
    /\ \E k \in DOMAIN shist :
         /\ k > 1
         /\ shist[k].string = shist[k - 1].string
         /\ shist[k].string.kind = "Const"
         /\ shist[k].index > 1
         /\ Len(shist[k - 1].strings) = Len(shist[k - 1].before) + 1
    /\ \E k \in DOMAIN shist : shist[k].string = UsbString_None

\* C12: in every table reached by alloc calls, entry 0 is None, no two
\* entries are equal, and every value an alloc call returned an index for
\* still has that index (get_index returns it).
C12_TableStable ==
    /\ strings[1] = UsbString_None
    /\ \A i, j \in DOMAIN strings : i # j => strings[i] # strings[j]
    /\ \A k \in DOMAIN shist :
         get_index(strings, shist[k].string) = shist[k].index

\* three new values were interned one after the other; the first still has
\* its index
C12_Witness ==
    /\ Len(shist) >= 3
    /\ Len(strings) = Len(shist[1].before) + 3
    /\ shist[1].index = 1
    /\ shist[3].index = 3
    /\ get_index(strings, shist[1].string) = 1

----------------------------------------------------------------------------
\* Claims about the builders

\* The device of the end-to-end scenario: a first interface with one
\* interrupt-IN endpoint of 8 bytes, a second with a bulk-OUT and a bulk-IN
\* endpoint of 64 bytes, and no custom descriptor
Scenario ==
    /\ Len(interfaces) = 2
    /\ interfaces[1].endpoints = <<InterruptIn8>>
    /\ interfaces[2].endpoints = <<BulkOut64, BulkIn64>>
    /\ interfaces[1].custom_descriptors = <<>>
    /\ interfaces[2].custom_descriptors = <<>>

IsIn(desc) == desc.address \div 128 = 1

\* C13: the scenario device builds to a configuration descriptor of 48 bytes
\* whose wTotalLength is 48 = 9 + 9 + 7 + 9 + 7 + 7 and whose bNumInterfaces
\* is 2, and to an endpoint list of exactly 5 entries: control-OUT,
\* control-IN, interrupt-IN, bulk-OUT, bulk-IN.
C13_EndToEnd ==
    (config.ok /\ Scenario) =>
        LET cd == config.configuration_descriptor
            eps == config.endpoints
        IN
        /\ Len(cd) = 9 + 9 + 7 + 9 + 7 + 7
        /\ cd[3] + 256 * cd[4] = 48
        /\ cd[5] = 2
        /\ Len(eps) = 5
        /\ [k \in 1..5 |-> eps[k].attributes] =
              <<EndpointType_Control, EndpointType_Control, EndpointType_Interrupt,
                EndpointType_Bulk, EndpointType_Bulk>>
        /\ [k \in 1..5 |-> IsIn(eps[k])] = <<FALSE, TRUE, TRUE, FALSE, TRUE>>
        /\ eps[3] = InterruptIn8
        /\ eps[4] = BulkOut64
        /\ eps[5] = BulkIn64

\* the scenario device was built, with 64-byte control packets
C13_Witness ==
    /\ config.ok
    /\ Scenario
    /\ config.endpoints[1].max_packet_size = 64

\* C14: build succeeds only if every interface of the device has at least
\* one endpoint; a device with an interface that was allocated and never
\* saved is not serialized.
C14_NoEmptyInterface ==
    config.ok => \A k \in DOMAIN interfaces : interfaces[k].endpoints # <<>>

----------------------------------------------------------------------------
\* Claims about single allocator calls

\* The requests without a pinned number
AutoBuilders == {b \in Builders : b.number = None}

\* The lowest address index in 1..15 that no slot uses, or None
LowestFree ==
    LET free == {i \in 1..(USB_MAX_ENDPOINTS - 1) :
                    \A k \in DOMAIN endpoints : endpoints[k].address_index # i}
    IN IF free = {} THEN None ELSE Min(free)

\* C21: an auto-assigned allocate reuses the first slot, in creation order,
\* that has the requested type, is not double-buffered and lacks the requested
\* direction, and then adds no slot and no descriptor entry; with no such slot
\* it creates a new slot at the lowest address index in 1..15 that no slot
\* uses.  The endpoint it returns carries the address index of the chosen
\* slot, which is never 0.
C21_AutoAssign ==
    [][\A b \in AutoBuilders :
          IsCall(b, FALSE) =>
              LET hits == {k \in DOMAIN endpoints :
                              /\ endpoints[k].ep_type = b.ep_type
                              /\ ~endpoints[k].double_buffered
                              /\ ~has_direction(endpoints[k], b.direction)}
              IN
              /\ IF hits # {}
                 THEN /\ Len(endpoints') = Len(endpoints)
                      /\ start_address' = start_address
                      /\ last'.res = "Ok" =>
                            /\ has_direction(endpoints'[Min(hits)], b.direction)
                            /\ last'.number = endpoints[Min(hits)].address_index
                            /\ \A k \in hits \ {Min(hits)} : endpoints'[k] = endpoints[k]
                 ELSE last'.res = "Ok" =>
                            /\ Len(endpoints') = Len(endpoints) + 1
                            /\ start_address' = start_address + 8
                            /\ endpoints'[Len(endpoints')].address_index = LowestFree
                            /\ has_direction(endpoints'[Len(endpoints')], b.direction)
                            /\ last'.number = LowestFree
              /\ last'.res = "Ok" => last'.number \in 1..(USB_MAX_ENDPOINTS - 1)]_vars

\* C22: allocate (and allocate_double_buffered) on a request whose type,
\* direction or max packet size is unset fails with a configuration error, and
\* the slot list and both cursors are what they were before the call.
C22_UnsetRejected ==
    [][\A b \in UnsetBuilders : \A double_buffered \in BOOLEAN :
          IsCall(b, double_buffered) =>
              /\ last'.res = "ConfigError"
              /\ last'.number = None
              /\ endpoints' = endpoints
              /\ start_address' = start_address
              /\ end_address' = end_address
              /\ granted' = granted]_vars

\* a request with an unset field was refused by an allocator that holds a
\* slot and a buffer
C22_Witness ==
    /\ last.res = "ConfigError"
    /\ endpoints # <<>>
    /\ start_address > 0
    /\ end_address < ENDPOINT_MEMORY_SIZE

\* The slot of the control endpoint, made from the cursors the call found
ControlSlot(max_packet_size_0) ==
    LET tx_size == roundup_even(max_packet_size_0)
        rx_size_0 == rx_size_class(max_packet_size_0).size
    IN
    [address_index |-> 0, ep_type |-> "Control",
     tx_enabled |-> TRUE, rx_enabled |-> TRUE, double_buffered |-> FALSE,
     buffer_descriptor |-> SomeMem(start_address, 8),
     buffers |-> <<SomeMem(end_address - tx_size, tx_size),
                   SomeMem(end_address - tx_size - rx_size_0, rx_size_0)>>]

\* C23: the control-endpoint allocate, in any allocator state: when a slot
\* with address index 0 exists it fails and changes nothing; otherwise, when
\* it succeeds, it adds exactly one slot: address 0, type Control, tx and rx
\* enabled, not double-buffered, a fresh 8-byte descriptor entry, a TX buffer
\* of roundup_even(max_packet_size_0) bytes in place 0 and an RX buffer of
\* the receive size class of max_packet_size_0 in place 1.
C23_ControlEndpoint ==
    [][\A max_packet_size_0 \in Ep0Sizes :
          allocate_control(max_packet_size_0) =>
              IF \E k \in DOMAIN endpoints : endpoints[k].address_index = 0
              THEN /\ last'.res = "Exists"
                   /\ endpoints' = endpoints
                   /\ start_address' = start_address
                   /\ end_address' = end_address
              ELSE last'.res = "Ok" =>
                   /\ endpoints' = Append(endpoints, ControlSlot(max_packet_size_0))
                   /\ start_address' = start_address + 8
                   /\ end_address' = end_address - roundup_even(max_packet_size_0)
                                        - rx_size_class(max_packet_size_0).size
                   /\ last'.number = 0]_vars

\* the control endpoint was allocated after another slot, with a 100-byte
\* transmit buffer and a 128-byte receive buffer
C23_Witness ==
    /\ last.op = "allocate_control"
    /\ last.res = "Ok"
    /\ Len(endpoints) = 2
    /\ endpoints[2].address_index = 0
    /\ endpoints[2].buffer_descriptor = SomeMem(8, 8)
    /\ endpoints[2].buffers[BUFFER_TX + 1].size = 100
    /\ endpoints[2].buffers[BUFFER_RX + 1].size = 128

----------------------------------------------------------------------------
\* Claims about the memory layout

\* The data buffers stored in the slots
Buffers ==
    {endpoints[k].buffers[n] : k \in DOMAIN endpoints, n \in {1, 2}}
        \ {NoMem}

\* C24: the descriptor-table entries are laid out densely from address 0:
\* the k-th created slot (k = 0, 1, ...) has its 8-byte entry at offset 8 * k,
\* every entry offset is a multiple of 8, the start cursor is 8 times the
\* number of slots, and every data buffer lies at or above the end cursor and
\* below 512.
C24_DenseTable ==
    /\ \A k \in DOMAIN endpoints :
         /\ endpoints[k].buffer_descriptor = SomeMem(8 * (k - 1), 8)
         /\ endpoints[k].buffer_descriptor.address % 8 = 0
    /\ start_address = 8 * Len(endpoints)
    /\ \A mem \in Buffers :
         /\ mem.address >= end_address
         /\ mem.address + mem.size <= ENDPOINT_MEMORY_SIZE

----------------------------------------------------------------------------
\* Claims about single descriptors

\* Where the element written by call i ends: where the next call began to
\* write, or the end of the buffer
ElementEnd(i) ==
    IF i < Len(wcalls) THEN wcalls[i + 1].position ELSE Len(buf)

\* C25: for every descriptor written by write(type, payload) the first byte
\* of the element is payload length + 2, the number of bytes the element
\* takes in the buffer: the one-byte length field never wraps modulo 256.
C25_LengthByteExact ==
    \A i \in DOMAIN wcalls :
        ElementEnd(i) > wcalls[i].position =>
            buf[wcalls[i].position + 1] = ElementEnd(i) - wcalls[i].position

----------------------------------------------------------------------------
\* Claims about interface numbers

\* C26: interface numbers are dense and 0-based in allocation order: after
\* any alloc_interface and save calls the interface at position i of the
\* device has interface_number i, the n-th alloc_interface call returned
\* number n - 1 (a builder that is as new), and save leaves the number of
\* interfaces as it was.
C26_DenseNumbers ==
    [][/\ \A k \in DOMAIN interfaces' :
            interfaces'[k].descriptor.interface_number = k - 1
       /\ InterfacesAlloc =>
            /\ Len(interfaces') = Len(interfaces) + 1
            /\ \E ib \in held' :
                 /\ ib.descriptor.interface_number = Len(interfaces)
                 /\ ib.endpoints = <<>>
                 /\ interfaces'[Len(interfaces')] = ib
       /\ BuilderSave => Len(interfaces') = Len(interfaces)]_vars

----------------------------------------------------------------------------
\* Claims about the memory regions

\* The regions stored in the slots: region 0 of a slot is its descriptor
\* entry, regions 1 and 2 are its data buffers
Region(id) ==
    IF id[2] = 0 THEN endpoints[id[1]].buffer_descriptor
    ELSE endpoints[id[1]].buffers[id[2]]

RegionIds == {id \in (DOMAIN endpoints) \X {0, 1, 2} : Region(id).some}

\* no byte belongs to both regions
Disjoint(m1, m2) ==
    \/ m1.size = 0
    \/ m2.size = 0
    \/ m1.address + m1.size <= m2.address
    \/ m2.address + m2.size <= m1.address

\* C27: every region handed out and stored in a slot (the 8-byte descriptor
\* entry and every data buffer) lies inside the 512 bytes of endpoint memory,
\* and the regions are pairwise disjoint: no buffer overlaps another buffer
\* or the descriptor table.
C27_RegionsDisjoint ==
    /\ \A id \in RegionIds :
         /\ Region(id).address >= 0
         /\ Region(id).address + Region(id).size <= ENDPOINT_MEMORY_SIZE
    /\ \A id1, id2 \in RegionIds :
         id1 # id2 => Disjoint(Region(id1), Region(id2))

\* three slots hold three descriptor entries and five buffers: a
\* double-buffered slot, the control endpoint and a single-buffered slot
C27_Witness ==
    /\ Len(endpoints) = 3
    /\ Cardinality(RegionIds) = 8
    /\ \E k \in DOMAIN endpoints : endpoints[k].double_buffered
    /\ \E k \in DOMAIN endpoints : endpoints[k].address_index = 0
    /\ \A id \in RegionIds : Region(id).size > 0

\* The errors an allocator call returns
Failures == {"NoSlot", "NoAddress", "NoMemory", "InvalidSize", "Exists"}

\* C28: allocation is atomic on failure: when allocate,
\* allocate_double_buffered or the control-endpoint allocate fails (slot
\* limit, memory exhausted at the first or the second buffer, invalid RX size,
\* occupied address), the slot list and both cursors are what they were before
\* the call.
C28_AtomicOnFailure ==
    [][last'.res \in Failures =>
          /\ endpoints' = endpoints
          /\ start_address' = start_address
          /\ end_address' = end_address]_vars

----------------------------------------------------------------------------
\* Claims about the place and the address of a slot

\* The slot at place i of the list (i = 0, 1, ...) has address index i
PlaceIsAddress(eps) == \A k \in DOMAIN eps : eps[k].address_index = k - 1

\* This step is the call of allocate or allocate_double_buffered with a
\* request that has no pinned number
AutoCall == \E b \in AutoBuilders : \E double_buffered \in BOOLEAN :
                IsCall(b, double_buffered)

\* This step is the control-endpoint allocate on a new allocator
ControlFirst ==
    /\ endpoints = <<>>
    /\ start_address = 0
    /\ \E max_packet_size_0 \in Ep0Sizes : allocate_control(max_packet_size_0)

\* C29: when the control endpoint is allocated first on a new allocator and
\* every later endpoint is allocated without a pinned number, the slot at
\* place i has address index i in every state: the first call establishes
\* this, every later call without a pinned number, successful or not, keeps
\* it, the projection keeps the order of the slots, and so the generator's
\* assertion that the place equals the endpoint address holds for every slot.
C29_PlaceIsAddress ==
    [][/\ ControlFirst =>
            /\ last'.res = "Ok"
            /\ PlaceIsAddress(endpoints')
       /\ (endpoints # <<>> /\ PlaceIsAddress(endpoints) /\ AutoCall) =>
            PlaceIsAddress(endpoints')
       /\ (PlaceIsAddress(endpoints') /\ target'.ok) =>
            \A k \in DOMAIN endpoints' : target'.endpoints[k].ep_address = k - 1
       /\ (PlaceIsAddress(endpoints') /\ generated'.done) =>
            generated'.panic # "ep_address"]_vars

\* the control endpoint and two slots without a pinned number were
\* allocated, in this order, and the generator wrote all three
C29_Witness ==
    /\ Len(endpoints) = 3
    /\ endpoints[1].ep_type = "Control"
    /\ PlaceIsAddress(endpoints)
    /\ \A g \in BagToSet(granted) : g.address \in 0..2
    /\ generated.done
    /\ generated.ok
    /\ generated.lines # <<>>

----------------------------------------------------------------------------
\* Claims about the word units of the projection

\* C30: the byte address and the byte size of every data buffer are even,
\* TX buffers of every packet size included, so the projection's conversion
\* to 16-bit words (address >> 1, size >> 1) loses nothing: the words shifted
\* back give the reserved address and size.
C30_WordsExact ==
    /\ \A k \in DOMAIN endpoints : \A n \in {1, 2} :
         LET mem == endpoints[k].buffers[n]
             d == create_buffer_descriptor(mem, FALSE)
         IN
         mem.some =>
             /\ mem.address % 2 = 0
             /\ mem.size % 2 = 0
             /\ Shl16(d.offset_words, 1) = mem.address
             /\ Shl16(d.size_words, 1) = mem.size
    /\ target.ok =>
         \A k \in DOMAIN endpoints :
            /\ Shl16(target.endpoints[k].buffer0_offset_words, 1)
                  = endpoints[k].buffers[1].address
            /\ Shl16(target.endpoints[k].buffer0_size_words, 1)
                  = endpoints[k].buffers[1].size
            /\ Shl16(target.endpoints[k].buffer1_offset_words, 1)
                  = endpoints[k].buffers[2].address
            /\ Shl16(target.endpoints[k].buffer1_size_words, 1)
                  = endpoints[k].buffers[2].size

\* slots with TX buffers reserved for the odd packet sizes 99 and 7 were
\* projected: 50 and 4 words
C30_Witness ==
    /\ target.ok
    /\ \E k \in DOMAIN endpoints :
         /\ endpoints[k].buffers[BUFFER_TX + 1].size = 100
         /\ target.endpoints[k].buffer0_size_words = 50
    /\ \E k \in DOMAIN endpoints :
         /\ endpoints[k].tx_enabled
         /\ endpoints[k].buffers[BUFFER_TX + 1].size = 8
         /\ target.endpoints[k].buffer0_size_words = 4
         /\ target.endpoints[k].buffer0_offset_words > 0

----------------------------------------------------------------------------
\* Claims about the string indexes of a built device

\* The string references that build serializes
SerializedStrings(builder) ==
    {builder.descriptor.manufacturer, builder.descriptor.product,
     builder.descriptor.serial_number,
     builder.configuration_desc.configuration_string}
        \cup {interfaces[k].descriptor.interface_string : k \in DOMAIN interfaces}

\* The number of entries of the string table: the distinct values among None,
\* the serialized references and Custom(42)
TableEntries(builder) ==
    Cardinality(SerializedStrings(builder) \cup {UsbString_None, UsbString_Custom(42)})

\* The string indexes in the descriptors of the built device: iManufacturer,
\* iProduct and iSerialNumber, iConfiguration, and the iInterface of each
\* interface (an interface with one endpoint takes 9 + 7 bytes after the 9
\* bytes of the configuration descriptor)
WrittenIndexes(built) ==
    {built.device_descriptor[15], built.device_descriptor[16],
     built.device_descriptor[17], built.configuration_descriptor[7]}
        \cup {built.configuration_descriptor[9 + (9 + 7) * (k - 1) + 9] :
                 k \in DOMAIN interfaces}

BuiltFrom(builder) ==
    \E checked \in BOOLEAN :
        config' = build(builder.descriptor, builder.configuration_desc, interfaces,
                        checked)

\* C31: build of a device with interfaces finds an index for every string
\* reference it serializes; every string index written into the device,
\* configuration and interface descriptors is a key of exactly one of
\* string_descriptors and custom_strings; key 0 holds the language-ID
\* descriptor; and the keys of the two maps are disjoint and together are
\* exactly 0..n-1, n being the number of entries of the string table.
C31_StringIndexes ==
    [][\A builder \in Devices :
          (BuilderBuild /\ BuiltFrom(builder)) =>
              LET sd == DOMAIN config'.string_descriptors
                  cs == DOMAIN config'.custom_strings
              IN
              /\ config'.ok
              /\ \A i \in WrittenIndexes(config') : (i \in sd) # (i \in cs)
              /\ 0 \in sd
              /\ config'.string_descriptors[0] =
                    <<4, UsbDescriptorType_String, ENGLISH_US % U8, ENGLISH_US \div U8>>
              /\ sd \cap cs = {}
              /\ sd \cup cs = 0..(TableEntries(builder) - 1)]_vars
====
